---- MODULE Spec2Model ----
(***************************************************************************)
(* Model of the Gerrit review MCP server (server.py): the two read tools   *)
(* fetch_gerrit_change and fetch_patchset_diff, run one request at a time  *)
(* against a Gerrit server whose answers are chosen nondeterministically.  *)
(*                                                                         *)
(* Text is a sequence of one-character strings, so that str(), sorted(),   *)
(* ", ".join(), split(","), strip(), quote() and re.search() are modelled  *)
(* by what they compute.  An optional value is <<>> (None / key absent) or *)
(* <<v>>.  A JSON object whose key order matters (a Python dict) is a      *)
(* sequence of entries in insertion order.                                 *)
(***************************************************************************)
EXTENDS Integers, Sequences, FiniteSets, TLC

VARIABLES
    environ,            \* os.environ: the settings the tools read
    pc,                 \* position of the running request
    request,            \* the tool call being served and its arguments
    calls,              \* transport calls issued by the running request
    answers,            \* what each of them met: an answer or a failure
    change_info,        \* local: the change-detail answer
    target_revision,    \* local: resolved (target) revision
    base_revision,      \* local: resolved base revision (fetch_patchset_diff)
    files,              \* local: the file mapping being iterated
    idx,                \* local: position of the for loop in files
    processed_files,    \* local: processed_files / changed_files
    excluded_files,     \* local: excluded_files
    inline_comments,    \* local: inline_comments
    warnings,           \* logger.warning events of the running request
    outcome,            \* what the request returned or raised
    lifespan_context,   \* the GerritContext of the running session, if any
    session_environ,    \* history: os.environ as it was when the session started
    sent                \* what requests.get was called with, call by call

vars == <<environ, pc, request, calls, answers, change_info, target_revision,
          base_revision, files, idx, processed_files, excluded_files,
          inline_comments, warnings, outcome, lifespan_context,
          session_environ, sent>>

Session == <<lifespan_context, session_environ, sent>>

-----------------------------------------------------------------------------
(* Bounds of the model *)

MaxRevs == 2
MaxFiles == 3
MaxComments == 2
MaxSent == 2

-----------------------------------------------------------------------------
(* Optional values and text *)

None == <<>>
Some(v) == <<v>>
IsNone(o) == o = <<>>
Val(o) == o[1]

Digits == <<"0", "1", "2", "3", "4", "5", "6", "7", "8", "9">>

DigitValue(c) == CHOOSE d \in 0..9 : Digits[d + 1] = c

\* str(n) of a non-negative int
RECURSIVE Str(_)
Str(n) ==
    IF n < 10 THEN <<Digits[n + 1]>>
    ELSE Str(n \div 10) \o <<Digits[(n % 10) + 1]>>

\* Python's < on two digit strings: lexicographic by code point
RECURSIVE StrLess(_, _)
StrLess(a, b) ==
    IF b = <<>> THEN FALSE
    ELSE IF a = <<>> THEN TRUE
    ELSE IF Head(a) # Head(b) THEN DigitValue(Head(a)) < DigitValue(Head(b))
    ELSE StrLess(Tail(a), Tail(b))

\* insertion of s into an ascending list, after the entries not greater
RECURSIVE Insert(_, _)
Insert(s, sortedSeq) ==
    IF sortedSeq = <<>> THEN <<s>>
    ELSE IF StrLess(s, Head(sortedSeq)) THEN <<s>> \o sortedSeq
    ELSE <<Head(sortedSeq)>> \o Insert(s, Tail(sortedSeq))

\* sorted(list of str)
RECURSIVE Sorted(_)
Sorted(seq) ==
    IF seq = <<>> THEN <<>>
    ELSE Insert(seq[Len(seq)], Sorted(SubSeq(seq, 1, Len(seq) - 1)))

\* sep.join(list of str)
RECURSIVE Join(_, _)
Join(seq, sep) ==
    IF seq = <<>> THEN <<>>
    ELSE IF Len(seq) = 1 THEN seq[1]
    ELSE seq[1] \o sep \o Join(Tail(seq), sep)

\* s.split(","): the pieces between commas, empty pieces kept
RECURSIVE Split(_)
Split(s) ==
    IF \A i \in 1..Len(s) : s[i] # ","
    THEN <<s>>
    ELSE LET k == CHOOSE i \in 1..Len(s) :
                      s[i] = "," /\ \A j \in 1..(i - 1) : s[j] # ","
         IN <<SubSeq(s, 1, k - 1)>> \o Split(SubSeq(s, k + 1, Len(s)))

\* s.strip(): leading and trailing whitespace removed
RECURSIVE Strip(_)
Strip(s) ==
    IF s = <<>> THEN s
    ELSE IF Head(s) = " " THEN Strip(Tail(s))
    ELSE IF s[Len(s)] = " " THEN Strip(SubSeq(s, 1, Len(s) - 1))
    ELSE s

Unreserved == {"a", "b", "c", "d", "e", "f", "g", "h", "i", "j", "k", "l", "m",
               "n", "o", "p", "q", "r", "s", "t", "u", "v", "w", "x", "y", "z",
               "C", "O", "M", "I", "T", "S", "G",
               "0", "1", "2", "3", "4", "5", "6", "7", "8", "9",
               "_", ".", "-", "~"}

\* the %XX escape of a reserved character
PercentEscape(c) ==
    IF c = "/" THEN <<"%", "2", "F">>
    ELSE IF c = " " THEN <<"%", "2", "0">>
    ELSE IF c = "$" THEN <<"%", "2", "4">>
    ELSE <<"%", "3", "F">>

\* urllib.parse.quote(path, safe='')
RECURSIVE Quote(_)
Quote(s) ==
    IF s = <<>> THEN <<>>
    ELSE (IF Head(s) \in Unreserved THEN <<Head(s)>> ELSE PercentEscape(Head(s)))
         \o Quote(Tail(s))

-----------------------------------------------------------------------------
(* re.search over the pattern fragment: literal, \c, ., ^, $ *)

RECURSIVE Atoms(_)
Atoms(p) ==
    IF p = <<>> THEN <<>>
    ELSE IF Head(p) = "\\" /\ Len(p) >= 2
         THEN <<[t |-> "lit", c |-> p[2]]>> \o Atoms(SubSeq(p, 3, Len(p)))
    ELSE IF Head(p) = "." THEN <<[t |-> "any", c |-> "."]>> \o Atoms(Tail(p))
    ELSE IF Head(p) = "^" THEN <<[t |-> "bol", c |-> "^"]>> \o Atoms(Tail(p))
    ELSE IF Head(p) = "$" THEN <<[t |-> "eol", c |-> "$"]>> \o Atoms(Tail(p))
    ELSE <<[t |-> "lit", c |-> Head(p)]>> \o Atoms(Tail(p))

RECURSIVE MatchAt(_, _, _)
MatchAt(atoms, s, i) ==
    IF atoms = <<>> THEN TRUE
    ELSE LET a == Head(atoms) IN
         CASE a.t = "bol" -> i = 1 /\ MatchAt(Tail(atoms), s, i)
           [] a.t = "eol" -> i = Len(s) + 1 /\ MatchAt(Tail(atoms), s, i)
           [] a.t = "any" -> i <= Len(s) /\ MatchAt(Tail(atoms), s, i + 1)
           [] OTHER -> i <= Len(s) /\ s[i] = a.c /\ MatchAt(Tail(atoms), s, i + 1)

re_search(pattern, s) ==
    \E i \in 1..(Len(s) + 1) : MatchAt(Atoms(pattern), s, i)

-----------------------------------------------------------------------------
(* The universe of inputs and server answers *)

CHANGE_ID == "12345"

RevIds == {"r1", "r2", "r3"}
PatchsetNumbers == {2, 10}

COMMIT_MSG == <<"/", "C", "O", "M", "M", "I", "T", "_", "M", "S", "G">>
PathA == <<"a", ".", "g", "o">>
PathLock == <<"x", ".", "l", "o", "c", "k">>
PathDir == <<"n", "/", "y", ".", "j", "s">>
FilePaths == {COMMIT_MSG, PathA, PathLock, PathDir}

\* file_info["status"] in a file listing: absent for a modified file
FileStatuses == {None, Some("SAME")}

\* sequences of length 0..n over S
SeqsUpTo(S, n) == UNION {[1..k -> S] : k \in 0..n}

\* the "revisions" object: revision id -> {"_number": n}, ids distinct
RevisionMaps ==
    {m \in SeqsUpTo([rev : RevIds, number : PatchsetNumbers], MaxRevs) :
        \A i, j \in 1..Len(m) : m[i].rev = m[j].rev => i = j}

\* a revision's "files" object: path -> file_info, paths distinct
FileMaps ==
    {m \in SeqsUpTo([path : FilePaths, status : {None}], MaxFiles) :
        \A i, j \in 1..Len(m) : m[i].path = m[j].path => i = j}

\* an answer of the files endpoint: the same, with the status relative to base
FilesDiffs ==
    {m \in SeqsUpTo([path : FilePaths, status : FileStatuses], MaxFiles) :
        \A i, j \in 1..Len(m) : m[i].path = m[j].path => i = j}

\* answers of the change-detail endpoint; all keys absent is {}
ChangeInfos ==
    [project : {None, Some("proj")},
     current_revision : {None} \cup {Some(r) : r \in RevIds},
     revisions : {None} \cup {Some(m) : m \in RevisionMaps}]

\* The answers are paired so that the model stays small: every change comes
\* with one of the plain file mappings, and every file mapping comes with the
\* plain change (two patchsets, the current one not the highest-numbered).
PlainChange ==
    [project |-> Some("proj"),
     current_revision |-> Some("r1"),
     revisions |-> Some(<<[rev |-> "r1", number |-> 2],
                          [rev |-> "r2", number |-> 10]>>)]

PlainFileMaps ==
    {<<>>,
     <<[path |-> COMMIT_MSG, status |-> None],
       [path |-> PathA, status |-> None],
       [path |-> PathLock, status |-> None]>>}

PlainFilesDiffs ==
    {<<>>,
     <<[path |-> COMMIT_MSG, status |-> None],
       [path |-> PathA, status |-> Some("SAME")],
       [path |-> PathLock, status |-> None]>>}

FileMapsOf(ci) == IF ci = PlainChange THEN FileMaps ELSE PlainFileMaps
FilesDiffsOf(ci) == IF ci = PlainChange THEN FilesDiffs ELSE PlainFilesDiffs

DiffBodies == {"diff"}
EmptyMapping == <<>>
CommentMaps == {EmptyMapping, <<[path |-> PathA, line |-> 1]>>}

\* what make_gerrit_rest_request raises
TransportFailures ==
    {[failed |-> "Authentication failed"],
     [failed |-> "Failed to make Gerrit REST API request"]}

\* values of GERRIT_EXCLUDED_PATTERNS (None: unset)
PatternSettings ==
    {None,
     Some(<<>>),
     Some(<<"\\", ".", "l", "o", "c", "k", "$", ",", "n", "/">>),
     Some(<<"l", "o", "c", "k", ",", " ", "x", ",", ",", "^", "y">>),
     Some(<<" ", ",", ",", " ">>)}

\* patchset numbers a caller supplies
PatchsetArgs == {<<"2">>, <<"1", "0">>, <<"3">>}

-----------------------------------------------------------------------------
(* Helpers shared by the tools *)

\* bool(x) of an optional string: None and "" are false
Truthy(o) == ~IsNone(o) /\ Val(o) # <<>>

\* the same for a name kept whole (a project, a revision id)
TruthyName(o) == ~IsNone(o) /\ Val(o) # ""

\* d.get(key, default)
Get(o, default) == IF IsNone(o) THEN default ELSE Val(o)

\* not change_info: the empty object
IsEmptyDict(ci) ==
    IsNone(ci.project) /\ IsNone(ci.current_revision) /\ IsNone(ci.revisions)

RevisionKeys(revisions) == {revisions[i].rev : i \in 1..Len(revisions)}

RevisionInfo(revisions, rev) ==
    LET i == CHOOSE k \in 1..Len(revisions) : revisions[k].rev = rev
    IN revisions[i]

\* the endpoint strings, by their parts
DetailEndpoint(change_id, options) ==
    [kind |-> "detail", change |-> change_id, options |-> options,
     revision |-> None, path |-> None, base |-> None]

\* variant: the path put into the endpoint as it is
DiffEndpoint_Unquoted(change_id, revision, file_path, base) ==
    [kind |-> "diff", change |-> change_id, options |-> None,
     revision |-> Some(revision), path |-> Some(file_path), base |-> base]

DiffEndpoint(change_id, revision, file_path, base) ==
    [kind |-> "diff", change |-> change_id, options |-> None,
     revision |-> Some(revision), path |-> Some(Quote(file_path)), base |-> base]

\* variant: the comments of the whole change, of no revision
CommentsEndpoint_OfChange(change_id, revision) ==
    [kind |-> "comments", change |-> change_id, options |-> None,
     revision |-> None, path |-> None, base |-> None]

CommentsEndpoint(change_id, revision) ==
    [kind |-> "comments", change |-> change_id, options |-> None,
     revision |-> Some(revision), path |-> None, base |-> None]

FilesEndpoint(change_id, revision, base) ==
    [kind |-> "files", change |-> change_id, options |-> None,
     revision |-> Some(revision), path |-> None, base |-> base]

ValueError(msg) == [type |-> "ValueError", msg |-> msg]
\* variant: the cause text of the failure is dropped
TransportError_Generic(f) == [type |-> "Exception", msg |-> [text |-> "request failed"]]

\* the Exception make_gerrit_rest_request raises, with the cause text
TransportError(f) == [type |-> "Exception", msg |-> [text |-> f.failed]]

\* the transport log entry of a call: failed, or answered
Failed(f) == [failure |-> Some(f.failed)]
Answered == [failure |-> None]
AnsweredWith(body) == [failure |-> None, body |-> body]

Raised(e) == [status |-> "raised", error |-> e]
Returned(r) == [status |-> "returned", result |-> r]
NoOutcome == [status |-> "none"]

\* variant: the numbers in the order of the revisions object, unsorted
AvailablePatchsets_Unsorted(revisions) ==
    Join([i \in 1..Len(revisions) |-> Str(revisions[i].number)], <<",", " ">>)

\* ', '.join(sorted([str(info.get("_number")) for info in revisions.values()]))
AvailablePatchsets(revisions) ==
    Join(Sorted([i \in 1..Len(revisions) |-> Str(revisions[i].number)]),
         <<",", " ">>)

-----------------------------------------------------------------------------
(* fetch_gerrit_change *)

\* variant: the int _number compared with the str argument, never equal
FindPatchset_NoStr(revisions, patchset_number) == None

\* the for loop with break: the first revision whose number matches
RECURSIVE FindPatchset(_, _)
FindPatchset(revisions, patchset_number) ==
    IF revisions = <<>> THEN None
    ELSE IF Str(Head(revisions).number) = patchset_number
         THEN Some(Head(revisions).rev)
    ELSE FindPatchset(Tail(revisions), patchset_number)

\* variant: the highest-numbered revision taken for the current one
DefaultRevision_Highest(ci) ==
    LET revisions == Get(ci.revisions, <<>>) IN
    IF revisions = <<>> THEN None
    ELSE LET i == CHOOSE k \in 1..Len(revisions) :
                      \A j \in 1..Len(revisions) :
                          revisions[j].number <= revisions[k].number
         IN Some(revisions[i].rev)

\* the else branch: use current revision
DefaultRevision(ci) == ci.current_revision

PatchsetNotFound(patchset_number, revisions) ==
    ValueError([text |-> "Patchset not found. Available patchsets: ",
                patchset |-> patchset_number,
                available |-> AvailablePatchsets(revisions)])

\* variant: a change is used whether or not it names its project
ResolveChange_AnyProject(ci, patchset_number) ==
    IF IsEmptyDict(ci)
    THEN Raised(ValueError([text |-> "Change not found"]))
    ELSE LET revisions == Get(ci.revisions, <<>>)
             target == IF Truthy(patchset_number)
                       THEN FindPatchset(revisions, Val(patchset_number))
                       ELSE DefaultRevision(ci)
         IN IF Truthy(patchset_number) /\ ~TruthyName(target)
            THEN Raised(PatchsetNotFound(Val(patchset_number), revisions))
            ELSE IF ~TruthyName(target) \/ Val(target) \notin RevisionKeys(revisions)
            THEN Raised(ValueError([text |-> "Revision information not found"]))
            ELSE [status |-> "resolved", revision |-> Val(target)]

\* from the change-detail answer to the target revision, or the error raised
ResolveChange(ci, patchset_number) ==
    IF IsEmptyDict(ci)
    THEN Raised(ValueError([text |-> "Change not found"]))
    ELSE IF ~TruthyName(ci.project)
    THEN Raised(ValueError([text |-> "Project information not found in change"]))
    ELSE LET revisions == Get(ci.revisions, <<>>)
             target == IF Truthy(patchset_number)
                       THEN FindPatchset(revisions, Val(patchset_number))
                       ELSE DefaultRevision(ci)
         IN IF Truthy(patchset_number) /\ ~TruthyName(target)
            THEN Raised(PatchsetNotFound(Val(patchset_number), revisions))
            ELSE IF ~TruthyName(target) \/ Val(target) \notin RevisionKeys(revisions)
            THEN Raised(ValueError([text |-> "Revision information not found"]))
            ELSE [status |-> "resolved", revision |-> Val(target)]

\* variant: the pieces stripped, the blank ones kept as empty patterns
StripAll_KeepBlank(pieces) == [i \in 1..Len(pieces) |-> Strip(pieces[i])]

\* GERRIT_EXCLUDED_PATTERNS split on commas, stripped, blanks dropped
RECURSIVE StripAll(_)
StripAll(pieces) ==
    IF pieces = <<>> THEN <<>>
    ELSE (IF Strip(Head(pieces)) # <<>> THEN <<Strip(Head(pieces))>> ELSE <<>>)
         \o StripAll(Tail(pieces))

ExcludedPatterns(env) ==
    LET excluded_patterns_str == Get(env.GERRIT_EXCLUDED_PATTERNS, <<>>)
    IN IF excluded_patterns_str # <<>>
       THEN StripAll(Split(excluded_patterns_str))
       ELSE <<>>

\* variant: the pattern loop without break, the last pattern found wins
RECURSIVE ExcludeReason_Last(_, _)
ExcludeReason_Last(patterns, file_path) ==
    IF patterns = <<>> THEN None
    ELSE IF re_search(patterns[Len(patterns)], file_path)
         THEN Some([text |-> "Excluded pattern: ",
                    pattern |-> patterns[Len(patterns)]])
    ELSE ExcludeReason_Last(SubSeq(patterns, 1, Len(patterns) - 1), file_path)

\* the pattern loop with break: the first pattern found in the path
RECURSIVE ExcludeReason(_, _)
ExcludeReason(patterns, file_path) ==
    IF patterns = <<>> THEN None
    ELSE IF re_search(Head(patterns), file_path)
         THEN Some([text |-> "Excluded pattern: ", pattern |-> Head(patterns)])
    ELSE ExcludeReason(Tail(patterns), file_path)

\* variant: the commit-message entry treated like any file
IsCommitMsg_Never(file_path) == FALSE

\* the synthetic commit-message entry, which every loop skips
IsCommitMsg(file_path) == file_path = COMMIT_MSG

\* file_info.get("status", "MODIFIED")
StatusOf(file_info) == Get(file_info.status, "MODIFIED")

ExcludedEntry(file_info, reason) ==
    [path |-> file_info.path, status |-> StatusOf(file_info),
     exclude_reason |-> reason]

FileData(file_info, diff_info) ==
    [path |-> file_info.path, status |-> StatusOf(file_info), diff |-> diff_info]

\* variant: the note counts every file of the revision
ExcludedNote_CountsFiles(excluded) ==
    [text |-> "Excluded large files to prevent infinite loops.",
     count |-> Str(Len(files)),
     use |-> "fetch_patchset_diff"]

\* the _note text, by its parts
ExcludedNote(excluded) ==
    [text |-> "Excluded large files to prevent infinite loops.",
     count |-> Str(Len(excluded)),
     use |-> "fetch_patchset_diff"]

\* the result object; the report keys only when files were excluded
ChangeResult(ci, revision, fileMap, processed, excluded, comments) ==
    LET result == [change_info |-> ci,
                   project |-> Val(ci.project),
                   revision |-> revision,
                   patchset |-> [number |-> RevisionInfo(Val(ci.revisions), revision).number,
                                 files |-> fileMap],
                   files |-> processed,
                   inline_comments |-> comments]
    IN IF excluded # <<>>
       THEN result @@ [excluded_large_files |-> excluded,
                       note |-> ExcludedNote(excluded)]
       ELSE result

\* variant: the mapping walked from its last item
NextFile_Backwards(fileMap, i) == fileMap[Len(fileMap) + 1 - i]

\* the i-th item of fileMap.items(): a dict iterates in insertion order
NextFile(fileMap, i) == fileMap[i]

Locals == <<change_info, target_revision, base_revision, files, idx,
            processed_files, excluded_files, inline_comments>>

\* variant: comments are fetched unless the caller says no
IncludeComments_UnlessRefused(req) == req.include_comments # Some(FALSE)

\* the include_comments parameter, False when the caller omits it
IncludeComments(req) == Get(req.include_comments, FALSE)

\* the tool is called: the change-detail request goes out
FetchGerritChange(patchset_number, include_comments) ==
    /\ pc = "idle"
    /\ request' = [tool |-> "fetch_gerrit_change", change_id |-> CHANGE_ID,
                   patchset_number |-> patchset_number,
                   include_comments |-> include_comments]
    /\ calls' = <<DetailEndpoint(CHANGE_ID, "all")>>
    /\ pc' = "fgc_detail"
    /\ UNCHANGED <<environ, Session, answers, Locals, warnings, outcome>>

\* the change-detail answer: validation and revision resolution
FgcDetailAnswer ==
    /\ pc = "fgc_detail"
    /\ \/ \E f \in TransportFailures :
            /\ answers' = Append(answers, Failed(f))
            /\ outcome' = Raised(TransportError(f))
            /\ pc' = "done"
            /\ UNCHANGED <<change_info, target_revision, files, idx>>
       \/ \E ci \in ChangeInfos :
            LET r == ResolveChange(ci, request.patchset_number) IN
            /\ answers' = Append(answers, Answered)
            /\ change_info' = Some(ci)
            /\ IF r.status = "raised"
               THEN /\ outcome' = r
                    /\ pc' = "done"
                    /\ UNCHANGED <<target_revision, files, idx>>
               ELSE \* revision_info.get("files", {}) of the resolved revision,
                    \* the only file mapping of the answer that is read
                    \E fm \in FileMapsOf(ci) :
                        /\ target_revision' = Some(r.revision)
                        /\ files' = fm
                        /\ idx' = 1
                        /\ pc' = "fgc_loop"
                        /\ UNCHANGED outcome
    /\ UNCHANGED <<environ, Session, request, calls, base_revision, processed_files,
                   excluded_files, inline_comments, warnings>>

\* one iteration of the file loop, up to the diff request; after the last
\* file, the comments request or the return
FgcLoop ==
    /\ pc = "fgc_loop"
    /\ IF idx <= Len(files)
       THEN LET file_info == NextFile(files, idx)
                reason == ExcludeReason(ExcludedPatterns(environ), file_info.path)
            IN IF IsCommitMsg(file_info.path)
               THEN /\ idx' = idx + 1
                    /\ UNCHANGED <<pc, calls, excluded_files, outcome>>
               ELSE IF ~IsNone(reason)
               THEN /\ excluded_files' =
                           Append(excluded_files, ExcludedEntry(file_info, Val(reason)))
                    /\ idx' = idx + 1
                    /\ UNCHANGED <<pc, calls, outcome>>
               ELSE /\ calls' = Append(calls,
                           DiffEndpoint(request.change_id, Val(target_revision),
                                        file_info.path, None))
                    /\ pc' = "fgc_diff"
                    /\ UNCHANGED <<idx, excluded_files, outcome>>
       ELSE IF IncludeComments(request)
       THEN /\ calls' = Append(calls,
                   CommentsEndpoint(request.change_id, Val(target_revision)))
            /\ pc' = "fgc_comments"
            /\ UNCHANGED <<idx, excluded_files, outcome>>
       ELSE /\ outcome' = Returned(ChangeResult(Val(change_info), Val(target_revision),
                               files, processed_files, excluded_files, inline_comments))
            /\ pc' = "done"
            /\ UNCHANGED <<idx, calls, excluded_files>>
    /\ UNCHANGED <<environ, Session, request, answers, change_info, target_revision,
                   base_revision, files, processed_files, inline_comments, warnings>>

\* variant: the failure caught and the file skipped
DiffFailure_Skipped(f) ==
    /\ idx' = idx + 1
    /\ pc' = "fgc_loop"
    /\ UNCHANGED <<processed_files, outcome>>

\* a failed diff request is not caught: the exception leaves the tool
DiffFailure(f) ==
    /\ outcome' = Raised(TransportError(f))
    /\ pc' = "done"
    /\ UNCHANGED <<processed_files, idx>>

\* the diff answer of the file at idx
FgcDiffAnswer ==
    /\ pc = "fgc_diff"
    /\ \/ \E f \in TransportFailures :
            /\ answers' = Append(answers, Failed(f))
            /\ DiffFailure(f)
       \/ \E diff_info \in DiffBodies :
            /\ answers' = Append(answers, Answered)
            /\ processed_files' = Append(processed_files, FileData(NextFile(files, idx), diff_info))
            /\ idx' = idx + 1
            /\ pc' = "fgc_loop"
            /\ UNCHANGED outcome
    /\ UNCHANGED <<environ, Session, request, calls, change_info, target_revision,
                   base_revision, files, excluded_files, inline_comments, warnings>>

\* variant: the warning names the change only
CommentsWarning_Bare(change_id, f) ==
    [text |-> "Failed to fetch inline comments for change ",
     change |-> change_id, error |-> ""]

\* logger.warning(f"Failed to fetch inline comments for change ...: ...")
CommentsWarning(change_id, f) ==
    [text |-> "Failed to fetch inline comments for change ",
     change |-> change_id, error |-> f.failed]

\* variant: the failure of the comments request leaves the tool
CommentsFailure_Raised(f) ==
    /\ outcome' = Raised(TransportError(f))
    /\ UNCHANGED <<inline_comments, warnings>>

\* except Exception: a warning is logged, inline_comments is {} again and the
\* result is built as usual
CommentsFailure(f) ==
    /\ warnings' = Append(warnings, CommentsWarning(request.change_id, f))
    /\ inline_comments' = EmptyMapping
    /\ outcome' = Returned(ChangeResult(Val(change_info), Val(target_revision),
                       files, processed_files, excluded_files, EmptyMapping))

\* the comments answer, then the return
FgcCommentsAnswer ==
    /\ pc = "fgc_comments"
    /\ \/ \E f \in TransportFailures :
            /\ answers' = Append(answers, Failed(f))
            /\ CommentsFailure(f)
       \/ \E c \in CommentMaps :
            /\ answers' = Append(answers, Answered)
            /\ inline_comments' = c
            /\ outcome' = Returned(ChangeResult(Val(change_info), Val(target_revision),
                               files, processed_files, excluded_files, c))
            /\ UNCHANGED warnings
    /\ pc' = "done"
    /\ UNCHANGED <<environ, Session, request, calls, change_info, target_revision,
                   base_revision, files, idx, processed_files, excluded_files>>

-----------------------------------------------------------------------------
(* fetch_patchset_diff *)

\* the for loop without break: the last revision whose number matches
RECURSIVE FindLastPatchset(_, _)
FindLastPatchset(revisions, patchset) ==
    IF revisions = <<>> THEN None
    ELSE IF Str(revisions[Len(revisions)].number) = patchset
         THEN Some(revisions[Len(revisions)].rev)
    ELSE FindLastPatchset(SubSeq(revisions, 1, Len(revisions) - 1), patchset)

PatchsetsNotFound(revisions) ==
    ValueError([text |-> "Patchset(s) not found. Available patchsets: ",
                available |-> AvailablePatchsets(revisions)])

\* variant: only the target patchset is required to resolve
ResolvePatchsets_OnlyTarget(ci, base_patchset, target_patchset) ==
    IF IsEmptyDict(ci)
    THEN Raised(ValueError([text |-> "Change not found"]))
    ELSE LET revisions == Get(ci.revisions, <<>>)
             base == FindLastPatchset(revisions, base_patchset)
             target == FindLastPatchset(revisions, target_patchset)
         IN IF ~TruthyName(target)
            THEN Raised(PatchsetsNotFound(revisions))
            ELSE [status |-> "resolved", base |-> Get(base, ""),
                  target |-> Val(target)]

\* from the change-detail answer to both revisions, or the error raised
ResolvePatchsets(ci, base_patchset, target_patchset) ==
    IF IsEmptyDict(ci)
    THEN Raised(ValueError([text |-> "Change not found"]))
    ELSE LET revisions == Get(ci.revisions, <<>>)
             base == FindLastPatchset(revisions, base_patchset)
             target == FindLastPatchset(revisions, target_patchset)
         IN IF ~TruthyName(base) \/ ~TruthyName(target)
            THEN Raised(PatchsetsNotFound(revisions))
            ELSE [status |-> "resolved", base |-> Val(base), target |-> Val(target)]

\* variant: only a file that states MODIFIED counts as changed
ActuallyChanged_ModifiedOnly(file_info) == file_info.status = Some("MODIFIED")

\* file_info.get("status") != "SAME"
ActuallyChanged(file_info) == file_info.status # Some("SAME")

\* ?base= is appended when base_revision is set
BaseQualifier(base) == IF TruthyName(base) THEN base ELSE None

PatchsetDiffResult(base, target, req, changed) ==
    [base_revision |-> base,
     target_revision |-> target,
     base_patchset |-> req.base_patchset,
     target_patchset |-> req.target_patchset,
     files |-> changed]

\* the tool is called: the change-detail request goes out
FetchPatchsetDiff(base_patchset, target_patchset, file_path) ==
    /\ pc = "idle"
    /\ request' = [tool |-> "fetch_patchset_diff", change_id |-> CHANGE_ID,
                   base_patchset |-> base_patchset,
                   target_patchset |-> target_patchset,
                   file_path |-> file_path]
    /\ calls' = <<DetailEndpoint(CHANGE_ID, "revisions")>>
    /\ pc' = "fpd_detail"
    /\ UNCHANGED <<environ, Session, answers, Locals, warnings, outcome>>

\* the change-detail answer: both patchsets are resolved, then the file
\* listing relative to base is requested
FpdDetailAnswer ==
    /\ pc = "fpd_detail"
    /\ \/ \E f \in TransportFailures :
            /\ answers' = Append(answers, Failed(f))
            /\ outcome' = Raised(TransportError(f))
            /\ pc' = "done"
            /\ UNCHANGED <<change_info, target_revision, base_revision, calls>>
       \/ \E ci \in ChangeInfos :
            LET r == ResolvePatchsets(ci, request.base_patchset,
                                      request.target_patchset) IN
            /\ answers' = Append(answers, Answered)
            /\ change_info' = Some(ci)
            /\ IF r.status = "raised"
               THEN /\ outcome' = r
                    /\ pc' = "done"
                    /\ UNCHANGED <<target_revision, base_revision, calls>>
               ELSE /\ base_revision' = Some(r.base)
                    /\ target_revision' = Some(r.target)
                    /\ calls' = Append(calls,
                           FilesEndpoint(request.change_id, r.target,
                                         BaseQualifier(Some(r.base))))
                    /\ pc' = "fpd_files"
                    /\ UNCHANGED outcome
    /\ UNCHANGED <<environ, Session, request, files, idx, processed_files, excluded_files,
                   inline_comments, warnings>>

\* the answer of the files endpoint
FpdFilesAnswer ==
    /\ pc = "fpd_files"
    /\ \/ \E f \in TransportFailures :
            /\ answers' = Append(answers, Failed(f))
            /\ outcome' = Raised(TransportError(f))
            /\ pc' = "done"
            /\ UNCHANGED <<files, idx>>
       \/ \E files_diff \in FilesDiffsOf(Val(change_info)) :
            /\ answers' = Append(answers, Answered)
            /\ files' = files_diff
            /\ idx' = 1
            /\ pc' = "fpd_loop"
            /\ UNCHANGED outcome
    /\ UNCHANGED <<environ, Session, request, calls, change_info, target_revision,
                   base_revision, processed_files, excluded_files,
                   inline_comments, warnings>>

\* one iteration of the loop over files_diff, up to the diff request; after
\* the last file, the return.  The loop variable is named file_path, so the
\* file_path argument is never read.
FpdLoop ==
    /\ pc = "fpd_loop"
    /\ IF idx <= Len(files)
       THEN LET file_info == NextFile(files, idx) IN
            IF IsCommitMsg(file_info.path) \/ ~ActuallyChanged(file_info)
            THEN /\ idx' = idx + 1
                 /\ UNCHANGED <<pc, calls, outcome>>
            ELSE /\ calls' = Append(calls,
                        DiffEndpoint(request.change_id, Val(target_revision),
                                     file_info.path, BaseQualifier(base_revision)))
                 /\ pc' = "fpd_diff"
                 /\ UNCHANGED <<idx, outcome>>
       ELSE /\ outcome' = Returned(PatchsetDiffResult(Val(base_revision),
                               Val(target_revision), request, processed_files))
            /\ pc' = "done"
            /\ UNCHANGED <<idx, calls>>
    /\ UNCHANGED <<environ, Session, request, answers, change_info, target_revision,
                   base_revision, files, processed_files, excluded_files,
                   inline_comments, warnings>>

\* the diff answer of the file at idx: changed_files[file_path] = {...}
FpdDiffAnswer ==
    /\ pc = "fpd_diff"
    /\ \/ \E f \in TransportFailures :
            /\ answers' = Append(answers, Failed(f))
            /\ outcome' = Raised(TransportError(f))
            /\ pc' = "done"
            /\ UNCHANGED <<processed_files, idx>>
       \/ \E diff_info \in DiffBodies :
            /\ answers' = Append(answers, Answered)
            /\ processed_files' = Append(processed_files, FileData(NextFile(files, idx), diff_info))
            /\ idx' = idx + 1
            /\ pc' = "fpd_loop"
            /\ UNCHANGED outcome
    /\ UNCHANGED <<environ, Session, request, calls, change_info, target_revision,
                   base_revision, files, excluded_files, inline_comments, warnings>>

-----------------------------------------------------------------------------
(* build_review_comments *)

\* JSON values a client puts under "line" and "range"
JsonInt(n) == [type |-> "int", value |-> n]
JsonText(s) == [type |-> "str", value |-> s]
JsonObject(keys) == [type |-> "dict", keys |-> keys]

SpanFields == {"start_line", "start_character", "end_line", "end_character"}

CommentPaths == {None, Some(<<>>), Some(PathA), Some(PathLock)}
LineValues == {None, Some(JsonInt(0)), Some(JsonInt(5)), Some(JsonText("7"))}
RangeValues ==
    {None, Some(JsonObject(SpanFields)),
     Some(JsonObject({"start_line", "end_line"})), Some(JsonText("oops"))}

\* the message of the k-th comment of an input
MessageAt(k) == <<"m">> \o Str(k)

\* a comment input but for its message: any of the other keys absent
CommentShapes == [path : CommentPaths, line : LineValues, range : RangeValues]

\* the comment inputs of the given shapes, each with its message
CommentInputs(shapes) ==
    [i \in 1..Len(shapes) |->
        [path |-> shapes[i].path, message |-> Some(MessageAt(i)),
         line |-> shapes[i].line, range |-> shapes[i].range]]

ValidationError(field) == ValueError([text |-> "Invalid review input", field |-> field])

IsPositiveInteger(v) == v.type = "int" /\ v.value > 0
IsWellFormedSpan(v) == v.type = "dict" /\ SpanFields \subseteq v.keys

\* variant: the range looked at before the path and the line
FirstFault_RangeFirst(comment) ==
    IF ~IsNone(comment.range) /\ ~IsWellFormedSpan(Val(comment.range)) THEN Some("range")
    ELSE IF ~Truthy(comment.path) THEN Some("path")
    ELSE IF ~IsNone(comment.line) /\ ~IsPositiveInteger(Val(comment.line)) THEN Some("line")
    ELSE None

\* the validation of one comment, in order: path, line, range
FirstFault(comment) ==
    IF ~Truthy(comment.path) THEN Some("path")
    ELSE IF ~IsNone(comment.line) /\ ~IsPositiveInteger(Val(comment.line)) THEN Some("line")
    ELSE IF ~IsNone(comment.range) /\ ~IsWellFormedSpan(Val(comment.range)) THEN Some("range")
    ELSE None

\* variant: the entry repeats the path of the input
CommentEntry_WithPath(comment) ==
    IF ~IsNone(comment.line) /\ ~IsNone(comment.range)
    THEN [path |-> Val(comment.path), message |-> Val(comment.message),
          line |-> Val(comment.line), range |-> Val(comment.range)]
    ELSE IF ~IsNone(comment.line)
    THEN [path |-> Val(comment.path), message |-> Val(comment.message),
          line |-> Val(comment.line)]
    ELSE IF ~IsNone(comment.range)
    THEN [path |-> Val(comment.path), message |-> Val(comment.message),
          range |-> Val(comment.range)]
    ELSE [path |-> Val(comment.path), message |-> Val(comment.message)]

\* the entry kept under the path: the message, and the line or the range
\* when present
CommentEntry(comment) ==
    IF ~IsNone(comment.line) /\ ~IsNone(comment.range)
    THEN [message |-> Val(comment.message), line |-> Val(comment.line),
          range |-> Val(comment.range)]
    ELSE IF ~IsNone(comment.line)
    THEN [message |-> Val(comment.message), line |-> Val(comment.line)]
    ELSE IF ~IsNone(comment.range)
    THEN [message |-> Val(comment.message), range |-> Val(comment.range)]
    ELSE [message |-> Val(comment.message)]

\* the mapping with the entry added to the group of its path; a new path
\* goes last
GroupUnder(mapping, path, entry) ==
    IF \E i \in 1..Len(mapping) : mapping[i].path = path
    THEN [i \in 1..Len(mapping) |->
             IF mapping[i].path = path
             THEN [path |-> path, entries |-> Append(mapping[i].entries, entry)]
             ELSE mapping[i]]
    ELSE Append(mapping, [path |-> path, entries |-> <<entry>>])

\* the comments one after the other: the first fault raises
RECURSIVE NormalizeComments(_, _)
NormalizeComments(comments, mapping) ==
    IF comments = <<>> THEN Returned(mapping)
    ELSE LET fault == FirstFault(Head(comments)) IN
         IF ~IsNone(fault)
         THEN Raised(ValidationError(Val(fault)))
         ELSE NormalizeComments(Tail(comments),
                  GroupUnder(mapping, Val(Head(comments).path),
                             CommentEntry(Head(comments))))

\* variant: a call without comments is refused
build_review_comments_RequiresInput(comments) ==
    IF IsNone(comments) \/ Val(comments) = <<>>
    THEN Raised(ValidationError("comments"))
    ELSE NormalizeComments(Val(comments), EmptyMapping)

\* absent or empty input gives the empty mapping
build_review_comments(comments) ==
    IF IsNone(comments)
    THEN Returned(EmptyMapping)
    ELSE NormalizeComments(Val(comments), EmptyMapping)

\* the function is called on its own, with None or with up to MaxComments
\* comments
BuildReviewComments ==
    /\ pc = "idle"
    /\ \E k \in 0..MaxComments, given \in BOOLEAN :
       \E shapes \in [1..k -> CommentShapes] :
          LET comments == IF given THEN Some(CommentInputs(shapes)) ELSE None IN
          /\ ~given => k = 0
          /\ request' = [tool |-> "build_review_comments", comments |-> comments]
          /\ outcome' = build_review_comments(comments)
    /\ pc' = "done"
    /\ UNCHANGED <<environ, Session, calls, answers, Locals, warnings>>

-----------------------------------------------------------------------------
(* submit_gerrit_review *)

\* what a caller submits
ReviewMessages == {None, Some(<<"L", "G", "T", "M">>)}
ReviewLabels == {None, Some(<<[label |-> "Code-Review", vote |-> 1]>>)}
NotifySettings == {None, Some("OWNER_REVIEWERS"), Some("NONE")}

\* comments of a submission: none, two for one file, one with a bad line
ReviewComments ==
    {None,
     Some(<<[path |-> Some(PathA), message |-> Some(MessageAt(1)),
             line |-> Some(JsonInt(5)), range |-> None],
            [path |-> Some(PathA), message |-> Some(MessageAt(2)),
             line |-> None, range |-> None]>>),
     Some(<<[path |-> Some(PathA), message |-> Some(MessageAt(1)),
             line |-> Some(JsonInt(0)), range |-> None]>>)}

\* metadata answers of the server: the current revision and the revisions
\* are there
ReviewChangeInfos ==
    {ci \in ChangeInfos : ~IsNone(ci.current_revision) /\ ~IsNone(ci.revisions)}

\* bodies the server answers a review with
ReviewResponses == {EmptyMapping, <<[label |-> "Code-Review", vote |-> 1]>>}

\* variant: an empty submission is let through
NothingToSubmit_Never(req) == FALSE

\* message, labels and comments are all absent
NothingToSubmit(req) ==
    IsNone(req.message) /\ IsNone(req.labels) /\ IsNone(req.comments)

\* the metadata read of the change
ReviewMetadataEndpoint(change_id) == DetailEndpoint(change_id, "revisions")

\* the review write, a POST with a JSON body
ReviewEndpoint(change_id, revision, payload) ==
    [kind |-> "review", change |-> change_id, options |-> None,
     revision |-> Some(revision), path |-> None, base |-> None,
     method |-> "POST", json_payload |-> payload]

\* variant: the notify setting replaced by a fixed policy
ReviewPayload_NotifyOwner(req, comments) ==
    [message |-> req.message, labels |-> req.labels,
     comments |-> comments, notify |-> Some("OWNER")]

\* variant: the labels left out of the payload
ReviewPayload_NoLabels(req, comments) ==
    [message |-> req.message, labels |-> None,
     comments |-> comments, notify |-> req.notify]

\* message, labels, normalized comments and notify setting
ReviewPayload(req, comments) ==
    [message |-> req.message, labels |-> req.labels,
     comments |-> comments, notify |-> req.notify]

\* variant: an unknown patchset number falls back to the current revision
ResolveReviewRevision_FallsBack(ci, patchset_number) ==
    LET target == IF IsNone(patchset_number) THEN None
                  ELSE FindPatchset(Val(ci.revisions), Val(patchset_number))
    IN IF IsNone(target)
       THEN [status |-> "resolved", revision |-> Val(DefaultRevision(ci))]
       ELSE [status |-> "resolved", revision |-> Val(target)]

\* the revision resolver: the current revision without a number, the
\* matching revision with one, else the not-found error
ResolveReviewRevision(ci, patchset_number) ==
    IF IsNone(patchset_number)
    THEN [status |-> "resolved", revision |-> Val(DefaultRevision(ci))]
    ELSE LET target == FindPatchset(Val(ci.revisions), Val(patchset_number))
         IN IF IsNone(target)
            THEN Raised(PatchsetNotFound(Val(patchset_number), Val(ci.revisions)))
            ELSE [status |-> "resolved", revision |-> Val(target)]

ReviewResult(revision, response) == [revision |-> revision, response |-> response]

\* the tool is called: an empty submission is refused at once, else the
\* metadata read goes out
SubmitGerritReview(patchset_number, message, labels, comments, notify) ==
    LET req == [tool |-> "submit_gerrit_review", change_id |-> CHANGE_ID,
                patchset_number |-> patchset_number, message |-> message,
                labels |-> labels, comments |-> comments, notify |-> notify]
    IN /\ pc = "idle"
       /\ request' = req
       /\ IF NothingToSubmit(req)
          THEN /\ outcome' = Raised(ValidationError("message"))
               /\ pc' = "done"
               /\ UNCHANGED calls
          ELSE /\ calls' = <<ReviewMetadataEndpoint(CHANGE_ID)>>
               /\ pc' = "sgr_detail"
               /\ UNCHANGED outcome
       /\ UNCHANGED <<environ, Session, answers, Locals, warnings>>

\* the metadata answer: the revision is resolved, the comments are
\* normalized and the review is written
SgrDetailAnswer ==
    /\ pc = "sgr_detail"
    /\ \/ \E f \in TransportFailures :
            /\ answers' = Append(answers, Failed(f))
            /\ outcome' = Raised(TransportError(f))
            /\ pc' = "done"
            /\ UNCHANGED <<change_info, target_revision, calls>>
       \/ \E ci \in ReviewChangeInfos :
            LET r == ResolveReviewRevision(ci, request.patchset_number)
                built == build_review_comments(request.comments)
            IN /\ answers' = Append(answers, Answered)
               /\ change_info' = Some(ci)
               /\ IF r.status = "raised"
                  THEN /\ outcome' = r
                       /\ pc' = "done"
                       /\ UNCHANGED <<target_revision, calls>>
                  ELSE IF built.status = "raised"
                  THEN /\ outcome' = built
                       /\ target_revision' = Some(r.revision)
                       /\ pc' = "done"
                       /\ UNCHANGED calls
                  ELSE /\ target_revision' = Some(r.revision)
                       /\ calls' = Append(calls,
                              ReviewEndpoint(request.change_id, r.revision,
                                             ReviewPayload(request, built.result)))
                       /\ pc' = "sgr_review"
                       /\ UNCHANGED outcome
    /\ UNCHANGED <<environ, Session, request, base_revision, files, idx, processed_files,
                   excluded_files, inline_comments, warnings>>

\* the answer of the review write
SgrReviewAnswer ==
    /\ pc = "sgr_review"
    /\ \/ \E f \in TransportFailures :
            /\ answers' = Append(answers, Failed(f))
            /\ outcome' = Raised(TransportError(f))
       \/ \E response \in ReviewResponses :
            /\ answers' = Append(answers, AnsweredWith(response))
            /\ outcome' = Returned(ReviewResult(Val(target_revision), response))
    /\ pc' = "done"
    /\ UNCHANGED <<environ, Session, request, calls, Locals, warnings>>

-----------------------------------------------------------------------------
(* Session start and transport: config.py, resolve_ssl_verification_setting,
   gerrit_lifespan, make_gerrit_rest_request *)

Uppercase == <<"A", "B", "C", "D", "E", "F", "G", "H", "I", "J", "K", "L", "M", "N", "O", "P", "Q", "R", "S", "T", "U", "V", "W", "X", "Y", "Z">>
Lowercase == <<"a", "b", "c", "d", "e", "f", "g", "h", "i", "j", "k", "l", "m", "n", "o", "p", "q", "r", "s", "t", "u", "v", "w", "x", "y", "z">>

\* str.lower()
RECURSIVE Lower(_)
Lower(s) ==
    IF s = <<>> THEN <<>>
    ELSE (IF \E i \in 1..Len(Uppercase) : Uppercase[i] = Head(s)
          THEN <<Lowercase[CHOOSE i \in 1..Len(Uppercase) : Uppercase[i] = Head(s)]>>
          ELSE <<Head(s)>>) \o Lower(Tail(s))

\* s.startswith(prefix)
StartsWith(s, prefix) ==
    Len(s) >= Len(prefix) /\ SubSeq(s, 1, Len(prefix)) = prefix

\* s.rstrip('/')
RECURSIVE RStripSlash(_)
RStripSlash(s) ==
    IF s # <<>> /\ s[Len(s)] = "/" THEN RStripSlash(SubSeq(s, 1, Len(s) - 1)) ELSE s

HttpScheme == <<"h", "t", "t", "p", ":", "/", "/">>
HttpsScheme == <<"h", "t", "t", "p", "s", ":", "/", "/">>

\* re.sub(r'^https?://', '', host): the scheme at the start removed, once
SubScheme(host) ==
    IF StartsWith(host, HttpsScheme) THEN SubSeq(host, Len(HttpsScheme) + 1, Len(host))
    ELSE IF StartsWith(host, HttpScheme) THEN SubSeq(host, Len(HttpScheme) + 1, Len(host))
    ELSE host

\* the file system of the host: the home directory, files and directories
HOME == <<"/", "h">>
RegularFiles == {<<"/", "c", "a", ".", "p", "e", "m">>, <<"/", "h", "/", "c", "a", ".", "p", "e", "m">>}
Directories == {<<"/", "e", "t", "c">>, <<".">>, HOME}

\* Path(text).expanduser(), as str: "" is ".", a leading ~ is the home
PathExpandUser(text) ==
    IF text = <<>> THEN <<".">>
    ELSE IF text = <<"~">> THEN HOME
    ELSE IF StartsWith(text, <<"~", "/">>) THEN HOME \o Tail(text)
    ELSE text

\* path.exists() and path.is_file()
IsExistingFile(path) == path \in RegularFiles

\* values of the settings the session reads (None: unset)
HostSettings ==
    {None, Some(<<>>), Some(<<"g">>), Some(<<"g", "/">>),
     Some(<<"h", "t", "t", "p", "s", ":", "/", "/", "g">>),
     Some(<<"h", "t", "t", "p", ":", "/", "/", "g", "/">>),
     Some(<<"h", "t", "t", "p", "s", ":", "/", "/">>),
     Some(<<"h", "t", "t", "p", "s", ":", "/", "/", "h", "t", "t", "p", "s", ":", "/", "/", "g">>)}
UserSettings == {None, Some(<<>>), Some(<<"u">>)}
AuthMethodSettings ==
    {None, Some(<<>>), Some(<<"b", "a", "s", "i", "c">>),
     Some(<<"B", "A", "S", "I", "C">>),
     Some(<<"d", "i", "g", "e", "s", "t">>),
     Some(<<"D", "i", "g", "e", "s", "t">>), Some(<<"l", "d", "a", "p">>)}
PasswordSettings == {None, Some(<<>>), Some(<<"l", "p">>)}
HttpPasswordSettings == {None, Some(<<>>), Some(<<"h", "p">>)}
SslVerifySettings ==
    {None, Some(<<>>), Some(<<" ">>), Some(<<"f", "a", "l", "s", "e">>),
     Some(<<" ", "F", "a", "l", "s", "e", " ">>), Some(<<"O", "F", "F">>),
     Some(<<"0">>), Some(<<"n", "o">>), Some(<<"t", "r", "u", "e">>),
     Some(<<" ", "Y", "E", "S">>), Some(<<"1">>), Some(<<"o", "n">>),
     Some(<<"m", "a", "y", "b", "e">>),
     Some(<<"/", "c", "a", ".", "p", "e", "m">>),
     Some(<<" ", "/", "c", "a", ".", "p", "e", "m">>),
     Some(<<"/", "n", "o", ".", "p", "e", "m">>),
     Some(<<"/", "e", "t", "c">>)}
CaBundleSettings ==
    {None, Some(<<>>), Some(<<" ">>),
     Some(<<"/", "c", "a", ".", "p", "e", "m">>),
     Some(<<" ", "/", "c", "a", ".", "p", "e", "m", " ">>),
     Some(<<"~", "/", "c", "a", ".", "p", "e", "m">>),
     Some(<<"/", "n", "o", ".", "p", "e", "m">>),
     Some(<<"/", "e", "t", "c">>)}

\* a working configuration: digest by default, system trust
PlainEnviron ==
    [GERRIT_HOST |-> Some(<<"g">>), GERRIT_USER |-> Some(<<"u">>),
     GERRIT_AUTH_METHOD |-> None, GERRIT_PASSWORD |-> None,
     GERRIT_HTTP_PASSWORD |-> Some(<<"h", "p">>),
     GERRIT_SSL_VERIFY |-> None, GERRIT_CA_BUNDLE |-> None]

\* the environments a session starts in: the plain one with its host and
\* user, or its authentication settings, or its TLS settings set otherwise
SessionEnvirons ==
    {[PlainEnviron EXCEPT !.GERRIT_HOST = h, !.GERRIT_USER = u] :
        h \in HostSettings, u \in UserSettings}
    \cup {[PlainEnviron EXCEPT !.GERRIT_AUTH_METHOD = a, !.GERRIT_PASSWORD = p,
                               !.GERRIT_HTTP_PASSWORD = hp] :
        a \in AuthMethodSettings, p \in PasswordSettings, hp \in HttpPasswordSettings}
    \cup {[PlainEnviron EXCEPT !.GERRIT_SSL_VERIFY = s, !.GERRIT_CA_BUNDLE = c] :
        s \in SslVerifySettings, c \in CaBundleSettings}

\* what the environment is changed to while a session runs
LaterSettings ==
    [GERRIT_AUTH_METHOD |-> {None, Some(<<"b", "a", "s", "i", "c">>)},
     GERRIT_PASSWORD |-> {Some(<<"l", "p", "2">>)},
     GERRIT_HTTP_PASSWORD |-> {None},
     GERRIT_SSL_VERIFY |-> {Some(<<"f", "a", "l", "s", "e">>)},
     GERRIT_CA_BUNDLE |-> {Some(<<"/", "c", "a", ".", "p", "e", "m">>)}]

VALID_AUTH_METHODS == {<<"d", "i", "g", "e", "s", "t">>, <<"b", "a", "s", "i", "c">>}
DEFAULT_AUTH_METHOD == <<"d", "i", "g", "e", "s", "t">>

\* variant: the method compared as it is written
get_auth_method_CaseSensitive(env) ==
    LET auth_method == Get(env.GERRIT_AUTH_METHOD, DEFAULT_AUTH_METHOD) IN
    IF auth_method \notin VALID_AUTH_METHODS
    THEN Raised(ValueError([text |-> "Invalid authentication method",
                            method |-> auth_method]))
    ELSE Returned(auth_method)

\* GERRIT_AUTH_METHOD lower-cased, 'digest' when unset; invalid raises
get_auth_method(env) ==
    LET auth_method == Get(env.GERRIT_AUTH_METHOD, DEFAULT_AUTH_METHOD) IN
    IF Lower(auth_method) \notin VALID_AUTH_METHODS
    THEN Raised(ValueError([text |-> "Invalid authentication method",
                            method |-> auth_method]))
    ELSE Returned(Lower(auth_method))

\* variant: the other secret used when the selected one is missing
get_password_FallsBack(env) ==
    LET auth_method == get_auth_method(env)
        own == IF auth_method.status = "returned" /\ auth_method.result = <<"b", "a", "s", "i", "c">>
               THEN env.GERRIT_PASSWORD ELSE env.GERRIT_HTTP_PASSWORD
        other == IF auth_method.status = "returned" /\ auth_method.result = <<"b", "a", "s", "i", "c">>
                 THEN env.GERRIT_HTTP_PASSWORD ELSE env.GERRIT_PASSWORD
    IN IF auth_method.status = "raised" THEN auth_method
       ELSE IF Truthy(own) THEN Returned(Val(own))
       ELSE IF Truthy(other) THEN Returned(Val(other))
       ELSE Raised(ValueError([text |-> "password environment variable is required"]))

\* the secret of the selected method: GERRIT_PASSWORD for basic,
\* GERRIT_HTTP_PASSWORD otherwise; unset or empty raises
get_password(env) ==
    LET auth_method == get_auth_method(env) IN
    IF auth_method.status = "raised" THEN auth_method
    ELSE IF auth_method.result = <<"b", "a", "s", "i", "c">>
    THEN IF ~Truthy(env.GERRIT_PASSWORD)
         THEN Raised(ValueError([text |-> "GERRIT_PASSWORD environment variable is required"]))
         ELSE Returned(Val(env.GERRIT_PASSWORD))
    ELSE IF ~Truthy(env.GERRIT_HTTP_PASSWORD)
         THEN Raised(ValueError([text |-> "GERRIT_HTTP_PASSWORD environment variable is required"]))
         ELSE Returned(Val(env.GERRIT_HTTP_PASSWORD))

\* the handler of the method configured when the handler is made
create_auth_handler(env, username, password) ==
    LET auth_method == get_auth_method(env) IN
    IF auth_method.status = "raised" THEN auth_method
    ELSE IF auth_method.result = <<"b", "a", "s", "i", "c">>
    THEN Returned([handler |-> "HTTPBasicAuth", username |-> username,
                   password |-> password])
    ELSE Returned([handler |-> "HTTPDigestAuth", username |-> username,
                   password |-> password])

\* the values of verify: True, False, or the path of a CA bundle
VerifyTrue == [verify |-> "True", path |-> <<>>]
VerifyFalse == [verify |-> "False", path |-> <<>>]
VerifyBundle(path) == [verify |-> "bundle", path |-> path]

TrueWords == {<<"1">>, <<"t", "r", "u", "e">>, <<"y", "e", "s">>, <<"o", "n">>}
FalseWords == {<<"0">>, <<"f", "a", "l", "s", "e">>, <<"n", "o">>, <<"o", "f", "f">>}

\* variant: a value that is no word and no file switches verification off
resolve_ssl_verification_setting_Lenient(env) ==
    LET ssl_verify_env == env.GERRIT_SSL_VERIFY
        ca_bundle_env == env.GERRIT_CA_BUNDLE
    IN IF Truthy(ca_bundle_env)
       THEN IF Strip(Val(ca_bundle_env)) = <<>>
            THEN Raised(ValueError([text |-> "GERRIT_CA_BUNDLE is set but empty after trimming whitespace"]))
            ELSE IF ~IsExistingFile(PathExpandUser(Strip(Val(ca_bundle_env))))
            THEN Raised(ValueError([text |-> "Configured GERRIT_CA_BUNDLE path does not exist"]))
            ELSE Returned(VerifyBundle(PathExpandUser(Strip(Val(ca_bundle_env)))))
       ELSE IF IsNone(ssl_verify_env) THEN Returned(VerifyTrue)
       ELSE IF Lower(Strip(Val(ssl_verify_env))) \in TrueWords THEN Returned(VerifyTrue)
       ELSE IF IsExistingFile(PathExpandUser(Strip(Val(ssl_verify_env))))
       THEN Returned(VerifyBundle(PathExpandUser(Strip(Val(ssl_verify_env)))))
       ELSE Returned(VerifyFalse)

\* the CA bundle first, then GERRIT_SSL_VERIFY as a word or as a path
resolve_ssl_verification_setting(env) ==
    LET ssl_verify_env == env.GERRIT_SSL_VERIFY
        ca_bundle_env == env.GERRIT_CA_BUNDLE
    IN IF Truthy(ca_bundle_env)
       THEN IF Strip(Val(ca_bundle_env)) = <<>>
            THEN Raised(ValueError([text |-> "GERRIT_CA_BUNDLE is set but empty after trimming whitespace"]))
            ELSE IF ~IsExistingFile(PathExpandUser(Strip(Val(ca_bundle_env))))
            THEN Raised(ValueError([text |-> "Configured GERRIT_CA_BUNDLE path does not exist"]))
            ELSE Returned(VerifyBundle(PathExpandUser(Strip(Val(ca_bundle_env)))))
       ELSE IF IsNone(ssl_verify_env) THEN Returned(VerifyTrue)
       ELSE IF Lower(Strip(Val(ssl_verify_env))) \in TrueWords THEN Returned(VerifyTrue)
       ELSE IF Lower(Strip(Val(ssl_verify_env))) \in FalseWords THEN Returned(VerifyFalse)
       ELSE IF IsExistingFile(PathExpandUser(Strip(Val(ssl_verify_env))))
       THEN Returned(VerifyBundle(PathExpandUser(Strip(Val(ssl_verify_env)))))
       ELSE Raised(ValueError([text |-> "Invalid GERRIT_SSL_VERIFY value"]))

GerritContext(host, user, http_password, verify_ssl) ==
    [host |-> host, user |-> user, http_password |-> http_password,
     verify_ssl |-> verify_ssl]

\* the context the tools of the other specifications run under
PlainContext == GerritContext(<<"g">>, <<"u">>, <<"h", "p">>, VerifyTrue)

\* the host as the session keeps it: a scheme at its start is stripped
SessionHost(env) ==
    LET host == Get(env.GERRIT_HOST, <<>>) IN
    IF StartsWith(host, HttpScheme) \/ StartsWith(host, HttpsScheme)
    THEN RStripSlash(SubScheme(host))
    ELSE host

\* the context of a session that starts in env, or the error of the start
gerrit_lifespan(env) ==
    LET host == SessionHost(env)
        user == Get(env.GERRIT_USER, <<>>)
        password == get_password(env)
        verify_ssl == resolve_ssl_verification_setting(env)
    IN IF host = <<>> \/ user = <<>>
       THEN Raised(ValueError([text |-> "Missing required environment variables: GERRIT_HOST, GERRIT_USER"]))
       ELSE IF password.status = "raised" THEN password
       ELSE IF verify_ssl.status = "raised" THEN verify_ssl
       ELSE Returned(GerritContext(host, user, password.result, verify_ssl.result))

\* what requests.get is called with, or the error raised before it
make_gerrit_rest_request(gerrit_ctx, env) ==
    LET auth == create_auth_handler(env, gerrit_ctx.user, gerrit_ctx.http_password) IN
    IF gerrit_ctx.http_password = <<>>
    THEN Raised(ValueError([text |-> "HTTP password not set"]))
    ELSE IF auth.status = "raised" THEN auth
    ELSE Returned([host |-> gerrit_ctx.host, auth |-> auth.result,
                   verify |-> gerrit_ctx.verify_ssl])

\* the session starts: the settings are read and the context is made
GerritLifespan ==
    /\ pc = "idle"
    /\ IsNone(lifespan_context)
    /\ request' = [tool |-> "gerrit_lifespan"]
    /\ outcome' = gerrit_lifespan(environ)
    /\ lifespan_context' = IF outcome'.status = "returned"
                           THEN Some(outcome'.result) ELSE None
    /\ session_environ' = IF outcome'.status = "returned" THEN Some(environ) ELSE None
    /\ pc' = "done"
    /\ UNCHANGED <<environ, calls, answers, Locals, warnings, sent>>

\* a setting is changed while the session runs
SetEnviron ==
    /\ pc = "idle"
    /\ ~IsNone(lifespan_context)
    /\ \E key \in DOMAIN LaterSettings :
       \E value \in LaterSettings[key] :
          /\ environ[key] # value
          /\ environ' = [environ EXCEPT ![key] = value]
    /\ UNCHANGED <<pc, request, calls, answers, Locals, warnings, outcome, Session>>

\* a tool of the running session makes a transport call
MakeGerritRestRequest ==
    /\ pc = "idle"
    /\ ~IsNone(lifespan_context)
    /\ Len(sent) < MaxSent
    /\ request' = [tool |-> "make_gerrit_rest_request"]
    /\ LET made == make_gerrit_rest_request(Val(lifespan_context), environ) IN
       IF made.status = "raised"
       THEN outcome' = made /\ UNCHANGED sent
       ELSE outcome' = Returned(EmptyMapping) /\ sent' = Append(sent, made.result)
    /\ pc' = "done"
    /\ UNCHANGED <<environ, calls, answers, Locals, warnings, lifespan_context,
                   session_environ>>

\* resolve_ssl_verification_setting called on its own
ResolveSslVerificationSetting ==
    /\ pc = "idle"
    /\ request' = [tool |-> "resolve_ssl_verification_setting"]
    /\ outcome' = resolve_ssl_verification_setting(environ)
    /\ pc' = "done"
    /\ UNCHANGED <<environ, calls, answers, Locals, warnings, Session>>

\* get_password called on its own
GetPassword ==
    /\ pc = "idle"
    /\ request' = [tool |-> "get_password"]
    /\ outcome' = get_password(environ)
    /\ pc' = "done"
    /\ UNCHANGED <<environ, calls, answers, Locals, warnings, Session>>

-----------------------------------------------------------------------------
(* The session *)

NoRequest == [tool |-> "none"]

Init ==
    /\ environ \in [GERRIT_EXCLUDED_PATTERNS : PatternSettings]
    /\ pc = "idle"
    /\ request = NoRequest
    /\ calls = <<>>
    /\ answers = <<>>
    /\ change_info = None
    /\ target_revision = None
    /\ base_revision = None
    /\ files = <<>>
    /\ idx = 1
    /\ processed_files = <<>>
    /\ excluded_files = <<>>
    /\ inline_comments = EmptyMapping
    /\ warnings = <<>>
    /\ outcome = NoOutcome
    /\ lifespan_context = Some(PlainContext)
    /\ session_environ = None
    /\ sent = <<>>

\* the request is over; the next one starts with fresh locals
NextRequest ==
    /\ pc = "done"
    /\ pc' = "idle"
    /\ request' = NoRequest
    /\ calls' = <<>>
    /\ answers' = <<>>
    /\ change_info' = None
    /\ target_revision' = None
    /\ base_revision' = None
    /\ files' = <<>>
    /\ idx' = 1
    /\ processed_files' = <<>>
    /\ excluded_files' = <<>>
    /\ inline_comments' = EmptyMapping
    /\ warnings' = <<>>
    /\ outcome' = NoOutcome
    /\ UNCHANGED <<environ, Session>>

Next ==
    \/ \E ps \in {None, Some(<<>>)} \cup {Some(a) : a \in PatchsetArgs},
          ic \in {None, Some(FALSE), Some(TRUE)} : FetchGerritChange(ps, ic)
    \/ FgcDetailAnswer
    \/ FgcLoop
    \/ FgcDiffAnswer
    \/ FgcCommentsAnswer
    \/ \E base \in PatchsetArgs \cup {<<>>}, target \in PatchsetArgs,
          fp \in {None, Some(PathLock)} : FetchPatchsetDiff(base, target, fp)
    \/ FpdDetailAnswer
    \/ FpdFilesAnswer
    \/ FpdLoop
    \/ FpdDiffAnswer
    \/ NextRequest

Spec == Init /\ [][Next]_vars

\* the session of a client that reviews: the builder called on its own, and
\* the submit tool
NextReview ==
    \/ BuildReviewComments
    \/ \E ps \in {None} \cup {Some(a) : a \in PatchsetArgs},
          message \in ReviewMessages, labels \in ReviewLabels,
          comments \in ReviewComments, notify \in NotifySettings :
          SubmitGerritReview(ps, message, labels, comments, notify)
    \/ SgrDetailAnswer
    \/ SgrReviewAnswer
    \/ NextRequest

\* the review tools read no environment variable
InitReview == Init /\ IsNone(environ.GERRIT_EXCLUDED_PATTERNS)

SpecReview == InitReview /\ [][NextReview]_vars

\* before a session: any of the environments, nothing started
InitSession ==
    /\ environ \in SessionEnvirons
    /\ pc = "idle"
    /\ request = NoRequest
    /\ calls = <<>>
    /\ answers = <<>>
    /\ change_info = None
    /\ target_revision = None
    /\ base_revision = None
    /\ files = <<>>
    /\ idx = 1
    /\ processed_files = <<>>
    /\ excluded_files = <<>>
    /\ inline_comments = EmptyMapping
    /\ warnings = <<>>
    /\ outcome = NoOutcome
    /\ lifespan_context = None
    /\ session_environ = None
    /\ sent = <<>>

\* the life of a session: its start, the transport calls of its tools and
\* changes of the environment; the configuration functions called alone
NextSession ==
    \/ GerritLifespan
    \/ SetEnviron
    \/ MakeGerritRestRequest
    \/ ResolveSslVerificationSetting
    \/ GetPassword
    \/ NextRequest

SpecSession == InitSession /\ [][NextSession]_vars

-----------------------------------------------------------------------------
(* Vocabulary of the properties *)

Fgc == request.tool = "fetch_gerrit_change"
Fpd == request.tool = "fetch_patchset_diff"
HasReturned == pc = "done" /\ outcome.status = "returned"
HasRaised == pc = "done" /\ outcome.status = "raised"

\* the change-detail answer has arrived and is not the empty object
HasChange == ~IsNone(change_info) /\ ~IsEmptyDict(Val(change_info))

TheRevisions == Get(Val(change_info).revisions, <<>>)

CallsOfKind(kinds) == {k \in 1..Len(calls) : calls[k].kind \in kinds}

\* the revisions whose number, written out, is the given text
Matching(revisions, text) ==
    {i \in 1..Len(revisions) : Str(revisions[i].number) = text}

DistinctNumbers(revisions) ==
    \A i, j \in 1..Len(revisions) :
        revisions[i].number = revisions[j].number => i = j

Ascending(strs) ==
    \A i, j \in 1..Len(strs) : i < j => ~StrLess(strs[j], strs[i])

\* the texts that list every revision's number once, in ascending string order
AscendingListings(revisions) ==
    LET n == Len(revisions)
        arranged(f) == [i \in 1..n |-> Str(revisions[f[i]].number)]
    IN {Join(arranged(f), <<",", " ">>) :
            f \in {g \in [1..n -> 1..n] :
                      /\ \A i, j \in 1..n : g[i] = g[j] => i = j
                      /\ Ascending(arranged(g))}}

-----------------------------------------------------------------------------
(* C1: in fetch_gerrit_change without a patchset number (None, or the empty
   string), the resolved revision is the change's current_revision: it is
   the "revision" of the result and the revision of every diff and comments
   call, whatever the patchset numbers of the other revisions. *)
C1_CurrentRevisionResolved ==
    (Fgc /\ ~Truthy(request.patchset_number) /\ ~IsNone(target_revision)) =>
        LET current == Val(change_info).current_revision IN
        /\ target_revision = current
        /\ \A k \in CallsOfKind({"diff", "comments"}) : calls[k].revision = current
        /\ HasReturned => outcome.result.revision = Val(current)

\* a result for the current revision, diffs fetched, while another revision
\* has a higher patchset number
C1_Witness ==
    /\ Fgc /\ HasReturned /\ IsNone(request.patchset_number)
    /\ CallsOfKind({"diff"}) # {} /\ CallsOfKind({"comments"}) # {}
    /\ \E i, j \in 1..Len(TheRevisions) :
          /\ TheRevisions[i].rev = outcome.result.revision
          /\ TheRevisions[j].number > TheRevisions[i].number

(* C2: when the revisions of the change have pairwise distinct patchset
   numbers and the supplied number equals, as a string, the number of a
   revision, fetch_gerrit_change resolves to exactly that revision; and the
   resolved revision's number is always the supplied one, so two different
   numbers never resolve to the same revision identifier. *)
C2_MatchingRevisionResolved ==
    (Fgc /\ HasChange /\ TruthyName(Val(change_info).project)
         /\ Truthy(request.patchset_number)) =>
        LET text == Val(request.patchset_number) IN
        /\ DistinctNumbers(TheRevisions) =>
              \A i \in Matching(TheRevisions, text) :
                  target_revision = Some(TheRevisions[i].rev)
        /\ ~IsNone(target_revision) =>
              \E i \in Matching(TheRevisions, text) :
                  TheRevisions[i].rev = Val(target_revision)

\* patchset "10" resolved to a revision that is neither the first entry nor
\* the current revision
C2_Witness ==
    /\ Fgc /\ HasReturned /\ request.patchset_number = Some(<<"1", "0">>)
    /\ DistinctNumbers(TheRevisions)
    /\ Len(TheRevisions) >= 2
    /\ outcome.result.revision = TheRevisions[2].rev
    /\ Val(change_info).current_revision # Some(outcome.result.revision)

(* C3: once fetch_gerrit_change resolves a supplied patchset number that
   matches no revision, the request fails with the patchset-not-found error
   naming that number and listing the number of every revision in ascending
   string order, and the change-detail call stays its only transport call. *)
C3_UnknownPatchsetFails ==
    (Fgc /\ HasChange /\ TruthyName(Val(change_info).project)
         /\ Truthy(request.patchset_number)
         /\ Matching(TheRevisions, Val(request.patchset_number)) = {}) =>
        /\ HasRaised
        /\ outcome.error.type = "ValueError"
        /\ outcome.error.msg.text = "Patchset not found. Available patchsets: "
        /\ outcome.error.msg.patchset = Val(request.patchset_number)
        /\ outcome.error.msg.available \in AscendingListings(TheRevisions)
        /\ Len(calls) = 1 /\ calls[1].kind = "detail"

\* the revisions carry 2 then 10; the error lists "10, 2"
C3_Witness ==
    /\ Fgc /\ HasRaised /\ HasChange
    /\ request.patchset_number = Some(<<"3">>)
    /\ Len(TheRevisions) = 2
    /\ TheRevisions[1].number = 2 /\ TheRevisions[2].number = 10
    /\ outcome.error.msg.text = "Patchset not found. Available patchsets: "
    /\ outcome.error.msg.available = <<"1", "0", ",", " ", "2">>

-----------------------------------------------------------------------------
(* Vocabulary of the file properties *)

PathsOf(entries) == [i \in 1..Len(entries) |-> entries[i].path]
Elements(seq) == {seq[i] : i \in 1..Len(seq)}

\* a is b with some entries left out, the order kept
IsSubsequence(a, b) ==
    \E f \in [1..Len(a) -> 1..Len(b)] :
        /\ \A i, j \in 1..Len(a) : i < j => f[i] < f[j]
        /\ \A i \in 1..Len(a) : a[i] = b[f[i]]

\* the excluded list a result reports
ReportedExcluded(result) ==
    IF "excluded_large_files" \in DOMAIN result
    THEN result.excluded_large_files
    ELSE <<>>

\* the pattern is found somewhere in the path: from some start, every item
\* of the pattern fits the place it falls on
Occurs(pattern, path) ==
    LET atoms == Atoms(pattern)
        consumed(k) == Cardinality({j \in 1..(k - 1) : atoms[j].t \in {"lit", "any"}})
    IN \E start \in 1..(Len(path) + 1) :
          \A k \in 1..Len(atoms) :
              LET pos == start + consumed(k) IN
              CASE atoms[k].t = "bol" -> pos = 1
                [] atoms[k].t = "eol" -> pos = Len(path) + 1
                [] atoms[k].t = "any" -> pos <= Len(path)
                [] OTHER -> pos <= Len(path) /\ path[pos] = atoms[k].c

\* the configured patterns found in the path, by position
Hits(path) ==
    LET patterns == ExcludedPatterns(environ)
    IN {k \in 1..Len(patterns) : Occurs(patterns[k], path)}

Least(S) == CHOOSE k \in S : \A j \in S : k <= j

\* the number a digit string writes
RECURSIVE ParseNat(_)
ParseNat(digits) ==
    IF digits = <<>> THEN 0
    ELSE 10 * ParseNat(SubSeq(digits, 1, Len(digits) - 1))
         + DigitValue(digits[Len(digits)])

-----------------------------------------------------------------------------
(* C4: in every result of fetch_gerrit_change the processed files and the
   excluded files share no path, their paths are together exactly the paths
   of the resolved revision's file mapping other than /COMMIT_MSG, each
   once, and each of the two lists is in the order of the file mapping. *)
C4_FilesPartitioned ==
    (Fgc /\ HasReturned) =>
        LET result == outcome.result
            mapping == PathsOf(result.patchset.files)
            processed == PathsOf(result.files)
            excluded == PathsOf(ReportedExcluded(result))
            wanted == Elements(mapping) \ {COMMIT_MSG}
        IN /\ Elements(processed) \cap Elements(excluded) = {}
           /\ Elements(processed) \cup Elements(excluded) = wanted
           /\ Len(processed) + Len(excluded) = Cardinality(wanted)
           /\ IsSubsequence(processed, mapping)
           /\ IsSubsequence(excluded, mapping)

\* two excluded files with a processed one between them
C4_Witness ==
    /\ Fgc /\ HasReturned
    /\ Len(files) = 3
    /\ PathsOf(outcome.result.files) = <<files[2].path>>
    /\ PathsOf(ReportedExcluded(outcome.result)) = <<files[1].path, files[3].path>>

(* C5: in every result of fetch_gerrit_change a file of the mapping is in
   the excluded list exactly when some configured pattern is found in its
   path, and its reason names the first such pattern in configured order. *)
C5_ExcludedByFirstPattern ==
    (Fgc /\ HasReturned) =>
        LET excluded == ReportedExcluded(outcome.result)
            patterns == ExcludedPatterns(environ)
        IN /\ \A i \in 1..Len(files) :
                 files[i].path # COMMIT_MSG =>
                     (files[i].path \in Elements(PathsOf(excluded))
                          <=> Hits(files[i].path) # {})
           /\ \A e \in 1..Len(excluded) :
                 /\ Hits(excluded[e].path) # {}
                 /\ excluded[e].exclude_reason =
                        [text |-> "Excluded pattern: ",
                         pattern |-> patterns[Least(Hits(excluded[e].path))]]

\* an excluded file in which two patterns are found, and a processed file
C5_Witness ==
    /\ Fgc /\ HasReturned
    /\ outcome.result.files # <<>>
    /\ \E e \in 1..Len(ReportedExcluded(outcome.result)) :
          LET entry == ReportedExcluded(outcome.result)[e] IN
          /\ Cardinality(Hits(entry.path)) >= 2
          /\ entry.exclude_reason.pattern = <<"l", "o", "c", "k">>

(* C6: throughout a fetch_gerrit_change request every diff call is addressed
   to the resolved revision and to the percent-encoded path of a file of the
   mapping that is neither /COMMIT_MSG nor excluded, no file gets two diff
   calls, and a returned request has issued one for each such file. *)
C6_OneDiffCallPerIncludedFile ==
    Fgc =>
        LET D == CallsOfKind({"diff"}) IN
        /\ \A k \in D :
              /\ calls[k].change = request.change_id
              /\ calls[k].revision = target_revision
              /\ calls[k].base = None
              /\ \E i \in 1..Len(files) :
                    /\ calls[k].path = Some(Quote(files[i].path))
                    /\ files[i].path # COMMIT_MSG
                    /\ Hits(files[i].path) = {}
                    /\ files[i].path \notin Elements(PathsOf(excluded_files))
        /\ \A k1, k2 \in D : calls[k1].path = calls[k2].path => k1 = k2
        /\ HasReturned =>
              \A i \in 1..Len(files) :
                  (/\ files[i].path # COMMIT_MSG
                   /\ files[i].path \notin
                          Elements(PathsOf(ReportedExcluded(outcome.result))))
                  => \E k \in D : calls[k].path = Some(Quote(files[i].path))

\* a result after one diff call, for n/y.js, with /COMMIT_MSG and an excluded
\* file in the mapping
C6_Witness ==
    /\ Fgc /\ HasReturned
    /\ Cardinality(CallsOfKind({"diff"})) = 1
    /\ PathsOf(outcome.result.files) = <<PathDir>>
    /\ COMMIT_MSG \in Elements(PathsOf(files))
    /\ ReportedExcluded(outcome.result) # <<>>

(* C7: a result of fetch_gerrit_change carries the excluded list and the
   note exactly when a file of the mapping was excluded; the list has one
   entry per such file, the count written in the note is the length of the
   list, and the note points to fetch_patchset_diff. *)
C7_ExcludedReport ==
    (Fgc /\ HasReturned) =>
        LET result == outcome.result
            matched == {i \in 1..Len(files) :
                           files[i].path # COMMIT_MSG /\ Hits(files[i].path) # {}}
        IN /\ "excluded_large_files" \in DOMAIN result <=> matched # {}
           /\ "note" \in DOMAIN result <=> matched # {}
           /\ matched # {} =>
                 /\ Len(result.excluded_large_files) = Cardinality(matched)
                 /\ ParseNat(result.note.count) = Len(result.excluded_large_files)
                 /\ result.note.use = "fetch_patchset_diff"

\* a report of two excluded files out of three
C7_Witness ==
    /\ Fgc /\ HasReturned
    /\ Len(files) = 3
    /\ "note" \in DOMAIN outcome.result
    /\ outcome.result.note.count = <<"2">>
    /\ Len(outcome.result.excluded_large_files) = 2

(* C8: in fetch_gerrit_change a failed diff call is the last transport call
   of the request, and the request has ended by raising that failure: no
   result is returned, no later diff and no comments call is issued. *)
C8_DiffFailureAborts ==
    Fgc =>
        \A k \in 1..Len(answers) :
            (calls[k].kind = "diff" /\ ~IsNone(answers[k].failure)) =>
                /\ k = Len(calls)
                /\ HasRaised
                /\ outcome.error =
                       [type |-> "Exception",
                        msg |-> [text |-> Val(answers[k].failure)]]

\* the second diff call failed, after a diff was fetched, with a file left
\* and comments requested
C8_Witness ==
    /\ Fgc /\ HasRaised
    /\ IncludeComments(request)
    /\ Len(answers) = 3 /\ calls[3].kind = "diff"
    /\ ~IsNone(answers[3].failure)
    /\ Len(processed_files) = 1
    /\ idx < Len(files)

(* C9: in every result of fetch_patchset_diff the keys of "files" are exactly
   the paths of the listing fetched for the target revision relative to the
   base revision whose status is not SAME and which are not /COMMIT_MSG, and
   the diff calls of the request are one for each of those paths. *)
C9_ChangedFilesOnly ==
    (Fpd /\ HasReturned) =>
        LET changed == {i \in 1..Len(files) :
                           /\ files[i].path # COMMIT_MSG
                           /\ files[i].status # Some("SAME")}
            D == CallsOfKind({"diff"})
        IN /\ calls[2] = FilesEndpoint(request.change_id, Val(target_revision),
                                       base_revision)
           /\ Elements(PathsOf(outcome.result.files)) =
                  {files[i].path : i \in changed}
           /\ Len(outcome.result.files) = Cardinality(changed)
           /\ {calls[k].path : k \in D} =
                  {Some(Quote(files[i].path)) : i \in changed}
           /\ Cardinality(D) = Cardinality(changed)

\* a listing with /COMMIT_MSG, a SAME file and one changed file
C9_Witness ==
    /\ Fpd /\ HasReturned
    /\ Len(files) = 3
    /\ COMMIT_MSG \in Elements(PathsOf(files))
    /\ \E i \in 1..3 : files[i].status = Some("SAME")
    /\ Len(outcome.result.files) = 1
    /\ Cardinality(CallsOfKind({"diff"})) = 1

(* C10: in fetch_patchset_diff, when the base or the target patchset number
   matches no revision of the change-detail answer, the request raises the
   patchsets-not-found error listing every revision's number in ascending
   string order (for the empty change object, which has no revision, the
   change-not-found error) after the change-detail call alone; when both
   match, the file listing is requested. *)
C10_BothPatchsetsMustResolve ==
    (Fpd /\ ~IsNone(change_info)) =>
        LET both == /\ Matching(TheRevisions, request.base_patchset) # {}
                    /\ Matching(TheRevisions, request.target_patchset) # {}
        IN /\ ~both =>
                 /\ HasRaised
                 /\ Len(calls) = 1
                 /\ outcome.error.type = "ValueError"
                 /\ IF IsEmptyDict(Val(change_info))
                    THEN outcome.error.msg.text = "Change not found"
                    ELSE /\ outcome.error.msg.text =
                                "Patchset(s) not found. Available patchsets: "
                         /\ outcome.error.msg.available
                                \in AscendingListings(TheRevisions)
           /\ both => Len(calls) >= 2 /\ calls[2].kind = "files"

\* the target matches a revision, the base does not
C10_Witness ==
    /\ Fpd /\ HasRaised /\ HasChange
    /\ Matching(TheRevisions, request.base_patchset) = {}
    /\ Matching(TheRevisions, request.target_patchset) # {}
    /\ Len(TheRevisions) = 2
    /\ outcome.error.msg.available = <<"1", "0", ",", " ", "2">>

(* C11: in fetch_patchset_diff, when a file path is given, the returned
   files mapping holds the diff of that file only and a diff is requested for
   that file only; when no file path is given, it holds the diffs of all the
   changed files of the listing. *)
C11_OnlyTheRequestedFile ==
    (Fpd /\ pc \in {"fpd_loop", "fpd_diff", "done"} /\ Len(answers) >= 2
         /\ answers[2] = Answered) =>
        LET changed == {i \in 1..Len(files) :
                           /\ files[i].path # COMMIT_MSG
                           /\ files[i].status # Some("SAME")}
            wanted == IF IsNone(request.file_path)
                      THEN {files[i].path : i \in changed}
                      ELSE {files[i].path : i \in changed} \cap {Val(request.file_path)}
        IN /\ \A k \in CallsOfKind({"diff"}) :
                 \E p \in wanted : calls[k].path = Some(Quote(p))
           /\ HasReturned =>
                 Elements(PathsOf(outcome.result.files)) = wanted

\* a request for x.lock alone returns the diffs of two files
C11_Divergence ==
    /\ Fpd /\ HasReturned
    /\ request.file_path = Some(PathLock)
    /\ Len(outcome.result.files) = 2
    /\ PathA \in Elements(PathsOf(outcome.result.files))

(* C12: fetch_gerrit_change issues a comments call only when include_comments
   is given as true; when it is false or omitted, the request issues no
   comments call at any point and a result has the empty mapping as its
   inline_comments. *)
C12_CommentsOnlyOnRequest ==
    Fgc =>
        /\ CallsOfKind({"comments"}) # {} => request.include_comments = Some(TRUE)
        /\ (HasReturned /\ request.include_comments # Some(TRUE)) =>
               outcome.result.inline_comments = EmptyMapping

\* a result with diffs, returned to a caller that omitted include_comments
C12_Witness ==
    /\ Fgc /\ HasReturned
    /\ IsNone(request.include_comments)
    /\ CallsOfKind({"diff"}) # {}
    /\ CallsOfKind({"comments"}) = {}
    /\ outcome.result.inline_comments = EmptyMapping

\* the same to a caller that passed False
C12_WitnessRefused ==
    /\ Fgc /\ HasReturned
    /\ request.include_comments = Some(FALSE)
    /\ CallsOfKind({"comments"}) = {}

\* the comments request of the current request has been answered with a failure
CommentsFetchFailed ==
    /\ Fgc
    /\ \E k \in CallsOfKind({"comments"}) :
          k <= Len(answers) /\ answers[k] # Answered

(* C13: when comments are requested and the comments call fails, whatever the
   error, fetch_gerrit_change returns: the result has the change info, the
   revision, the processed files and the excluded files of the request, it
   is the result any comments answer would have given but for its
   inline_comments, which is the empty mapping, and nothing is raised. *)
C13_CommentsFailureDegrades ==
    CommentsFetchFailed =>
        /\ HasReturned
        /\ LET r == outcome.result IN
           /\ r.inline_comments = EmptyMapping
           /\ r.change_info = Val(change_info)
           /\ r.revision = Val(target_revision)
           /\ r.files = processed_files
           /\ Len(r.files) = Cardinality(CallsOfKind({"diff"}))
           /\ IF excluded_files = <<>>
              THEN "excluded_large_files" \notin DOMAIN r
              ELSE r.excluded_large_files = excluded_files
           /\ \A c \in CommentMaps :
                 r = [ChangeResult(Val(change_info), Val(target_revision), files,
                                   processed_files, excluded_files, c)
                         EXCEPT !.inline_comments = EmptyMapping]

\* a failed comments call after a diff was fetched and a file was excluded
C13_Witness ==
    /\ CommentsFetchFailed /\ HasReturned
    /\ Len(outcome.result.files) >= 1
    /\ Len(excluded_files) >= 1
    /\ answers[Len(answers)] = Failed([failed |-> "Authentication failed"])

(* C14: a request whose comments call failed has logged exactly one warning,
   which carries the change identifier and the text of the error that the
   call raised; a request whose comments call was answered, is still
   outstanding or was never issued has logged no warning. *)
C14_OneWarningPerFailedFetch ==
    IF CommentsFetchFailed
    THEN /\ Len(warnings) = 1
         /\ warnings[1].text = "Failed to fetch inline comments for change "
         /\ warnings[1].change = request.change_id
         /\ \A k \in CallsOfKind({"comments"}) :
               Some(warnings[1].error) = answers[k].failure
    ELSE warnings = <<>>

\* the warning of a comments call that failed in the transport
C14_Witness ==
    /\ CommentsFetchFailed /\ HasReturned
    /\ warnings = <<[text |-> "Failed to fetch inline comments for change ",
                     change |-> "12345",
                     error |-> "Failed to make Gerrit REST API request"]>>

\* no warning after a comments call that was answered
C14_WitnessAnswered ==
    /\ Fgc /\ HasReturned
    /\ CallsOfKind({"comments"}) # {}
    /\ ~CommentsFetchFailed
    /\ warnings = <<>>

-----------------------------------------------------------------------------
(* Vocabulary of the review properties *)

Brc == request.tool = "build_review_comments"
Sgr == request.tool = "submit_gerrit_review"

\* the comments handed to build_review_comments, none for None
GivenComments == Get(request.comments, <<>>)

PathFault(c) == IsNone(c.path) \/ c.path = Some(<<>>)
LineFault(c) ==
    /\ ~IsNone(c.line)
    /\ ~(Val(c.line).type = "int" /\ Val(c.line).value >= 1)
RangeFault(c) ==
    /\ ~IsNone(c.range)
    /\ ~(/\ Val(c.range).type = "dict"
         /\ \A field \in SpanFields : field \in Val(c.range).keys)
Malformed(c) == PathFault(c) \/ LineFault(c) \/ RangeFault(c)

\* the fault reported of a malformed comment
Reported(c) ==
    IF PathFault(c) THEN "path" ELSE IF LineFault(c) THEN "line" ELSE "range"

(* C15: build_review_comments returns the empty mapping, and raises
   nothing, for the input None and for the empty sequence. *)
C15_NoCommentsEmptyMapping ==
    (Brc /\ pc = "done" /\ (IsNone(request.comments) \/ request.comments = Some(<<>>))) =>
        /\ outcome.status = "returned"
        /\ outcome.result = EmptyMapping

\* the call with the empty sequence has returned
C15_Witness ==
    /\ Brc /\ HasReturned
    /\ request.comments = Some(<<>>)
    /\ outcome.result = EmptyMapping

\* the call with None has returned
C15_WitnessNone ==
    /\ Brc /\ HasReturned
    /\ IsNone(request.comments)
    /\ outcome.result = EmptyMapping

\* a comment input as the data model has it: a path, and a line or a range
\* or neither
ValidComment(c) == ~Malformed(c) /\ (IsNone(c.line) \/ IsNone(c.range))

\* the positions of the input whose path is p, and the j-th of them
PositionsOf(comments, p) == {i \in 1..Len(comments) : comments[i].path = Some(p)}
NthOf(positions, j) ==
    CHOOSE i \in positions : Cardinality({k \in positions : k <= i}) = j

\* the keys an entry must have for its comment
EntryKeys(c) ==
    {"message"} \cup (IF IsNone(c.line) THEN {} ELSE {"line"})
                \cup (IF IsNone(c.range) THEN {} ELSE {"range"})

EntryOf(entry, c) ==
    /\ DOMAIN entry = EntryKeys(c)
    /\ entry.message = Val(c.message)
    /\ ~IsNone(c.line) => entry.line = Val(c.line)
    /\ ~IsNone(c.range) => entry.range = Val(c.range)

(* C16: for a sequence of valid comment inputs, build_review_comments
   returns a mapping whose keys are exactly the paths of the input, each
   once; under a path are that path's comments in input order, one entry
   per comment, and an entry has the message, the line or the range if the
   comment has one, and no path. *)
C16_GroupedByPathInOrder ==
    (Brc /\ pc = "done" /\ \A i \in 1..Len(GivenComments) : ValidComment(GivenComments[i])) =>
        /\ outcome.status = "returned"
        /\ LET mapping == outcome.result IN
           /\ Elements(PathsOf(mapping)) =
                  {Val(GivenComments[i].path) : i \in 1..Len(GivenComments)}
           /\ \A g, h \in 1..Len(mapping) : mapping[g].path = mapping[h].path => g = h
           /\ \A g \in 1..Len(mapping) :
                 LET positions == PositionsOf(GivenComments, mapping[g].path)
                     entries == mapping[g].entries
                 IN /\ Len(entries) = Cardinality(positions)
                    /\ \A j \in 1..Len(entries) :
                          /\ EntryOf(entries[j], GivenComments[NthOf(positions, j)])
                          /\ "path" \notin DOMAIN entries[j]

\* two comments of one file, the first with a line and the second with a
\* range, under one key in that order
C16_Witness ==
    /\ Brc /\ HasReturned
    /\ Len(GivenComments) = 2
    /\ Len(outcome.result) = 1
    /\ outcome.result[1].path = PathA
    /\ outcome.result[1].entries =
           <<[message |-> <<"m", "1">>, line |-> JsonInt(5)],
             [message |-> <<"m", "2">>, range |-> JsonObject(SpanFields)]>>

\* two file-level comments of two files, under two keys
C16_WitnessTwoPaths ==
    /\ Brc /\ HasReturned
    /\ outcome.result = <<[path |-> PathLock, entries |-> <<[message |-> <<"m", "1">>]>>],
                          [path |-> PathA, entries |-> <<[message |-> <<"m", "2">>]>>]>>

(* C17: build_review_comments given a malformed comment raises a validation
   error and returns no mapping; the error names a field that is at fault:
   "path" for a missing or empty path, "line" for a line that is present but
   not a positive integer, "range" for a range that is present but not a
   well-formed span; of the faults of one comment, the path is reported
   before the line and the line before the range. *)
C17_MalformedCommentRejected ==
    (Brc /\ pc = "done") =>
        LET bad == {i \in 1..Len(GivenComments) : Malformed(GivenComments[i])} IN
        /\ bad # {} =>
              /\ outcome.status = "raised"
              /\ outcome.error.type = "ValueError"
              /\ outcome.error.msg.field \in {Reported(GivenComments[i]) : i \in bad}
              /\ Len(GivenComments) = 1 =>
                     outcome.error.msg.field = Reported(GivenComments[1])
        /\ bad = {} => outcome.status = "returned"

\* one comment with an empty path, the line 0 and a range that is a string:
\* the path is reported
C17_Witness ==
    /\ Brc /\ HasRaised
    /\ Len(GivenComments) = 1
    /\ GivenComments[1].path = Some(<<>>)
    /\ GivenComments[1].line = Some(JsonInt(0))
    /\ GivenComments[1].range = Some(JsonText("oops"))
    /\ outcome.error.msg.field = "path"

\* a good comment, then one with the line 0 and a span of two fields: the
\* line is reported
C17_WitnessLine ==
    /\ Brc /\ HasRaised
    /\ Len(GivenComments) = 2
    /\ ~Malformed(GivenComments[1])
    /\ GivenComments[2].path = Some(PathA)
    /\ GivenComments[2].line = Some(JsonInt(0))
    /\ GivenComments[2].range = Some(JsonObject({"start_line", "end_line"}))
    /\ outcome.error.msg.field = "line"

\* a range that is a string, alone at fault
C17_WitnessRange ==
    /\ Brc /\ HasRaised
    /\ Len(GivenComments) = 1
    /\ ~PathFault(GivenComments[1]) /\ ~LineFault(GivenComments[1])
    /\ GivenComments[1].range = Some(JsonText("oops"))
    /\ outcome.error.msg.field = "range"

\* the HTTP method of a transport call: GET unless the call names one
MethodOf(call) == IF "method" \in DOMAIN call THEN call.method ELSE "GET"

(* C18: submit_gerrit_review called with message, labels and comments all
   absent raises a validation error, and the request issues no transport
   call: neither the metadata read nor the review write. *)
C18_EmptySubmissionRefused ==
    (Sgr /\ IsNone(request.message) /\ IsNone(request.labels)
         /\ IsNone(request.comments)) =>
        /\ HasRaised
        /\ outcome.error.type = "ValueError"
        /\ calls = <<>>
        /\ answers = <<>>

\* a submission of a notify setting and a patchset number alone
C18_Witness ==
    /\ Sgr /\ HasRaised
    /\ IsNone(request.message) /\ IsNone(request.labels) /\ IsNone(request.comments)
    /\ request.notify = Some("OWNER_REVIEWERS")
    /\ request.patchset_number = Some(<<"1", "0">>)
    /\ calls = <<>>

(* C19: a submit_gerrit_review request without a patchset number issues its
   transport calls in this order: one metadata read, then one review write
   addressed to the current revision of the change, whose payload has the
   labels as supplied; a request that has returned issued exactly these two
   calls, and its result is that revision identifier with the response of
   the server. *)
C19_ReadThenWriteToCurrent ==
    (Sgr /\ IsNone(request.patchset_number)) =>
        /\ Len(calls) <= 2
        /\ Len(calls) >= 1 =>
              /\ calls[1].kind = "detail"
              /\ MethodOf(calls[1]) = "GET"
              /\ calls[1].change = request.change_id
        /\ Len(calls) = 2 =>
              /\ Len(answers) >= 1 /\ answers[1] = Answered
              /\ calls[2].kind = "review"
              /\ MethodOf(calls[2]) = "POST"
              /\ calls[2].change = request.change_id
              /\ calls[2].revision = Val(change_info).current_revision
              /\ calls[2].json_payload.labels = request.labels
        /\ HasReturned =>
              /\ Len(calls) = 2 /\ Len(answers) = 2
              /\ outcome.result.revision = Val(Val(change_info).current_revision)
              /\ IsNone(answers[2].failure)
              /\ outcome.result.response = answers[2].body

\* a review with labels and comments, written to the current revision r1
\* while r2 has the higher patchset number, and answered
C19_Witness ==
    /\ Sgr /\ HasReturned /\ IsNone(request.patchset_number)
    /\ Val(change_info) = PlainChange
    /\ ~IsNone(request.labels) /\ ~IsNone(request.comments)
    /\ Len(calls) = 2
    /\ calls[2].revision = Some("r1")
    /\ calls[2].json_payload.labels = Some(<<[label |-> "Code-Review", vote |-> 1]>>)
    /\ outcome.result = [revision |-> "r1",
                         response |-> <<[label |-> "Code-Review", vote |-> 1]>>]

(* C20: submit_gerrit_review with a patchset number that matches no revision
   of the change raises the error that this patchset was not found, and the
   request issues no review write. *)
C20_UnknownPatchsetNoWrite ==
    (Sgr /\ ~IsNone(request.patchset_number) /\ ~IsNone(change_info)
         /\ Matching(TheRevisions, Val(request.patchset_number)) = {}) =>
        /\ HasRaised
        /\ outcome.error.type = "ValueError"
        /\ outcome.error.msg.text = "Patchset not found. Available patchsets: "
        /\ outcome.error.msg.patchset = Val(request.patchset_number)
        /\ CallsOfKind({"review"}) = {}
        /\ Len(calls) = 1

\* patchset 3 of a change whose patchsets are 2 and 10
C20_Witness ==
    /\ Sgr /\ HasRaised
    /\ request.patchset_number = Some(<<"3">>)
    /\ ~IsNone(request.message)
    /\ ~IsNone(change_info) /\ Val(change_info) = PlainChange
    /\ outcome.error.msg.patchset = <<"3">>
    /\ CallsOfKind({"review"}) = {}

(* C21: the notify value passed to submit_gerrit_review is, unchanged, the
   notify field of the payload of the review write call. *)
C21_NotifyVerbatim ==
    (Sgr /\ ~IsNone(request.notify)) =>
        \A k \in CallsOfKind({"review"}) :
            calls[k].json_payload.notify = request.notify

\* a review of a message alone, written with notify OWNER_REVIEWERS
C21_Witness ==
    /\ Sgr /\ HasReturned
    /\ request.notify = Some("OWNER_REVIEWERS")
    /\ IsNone(request.labels) /\ IsNone(request.comments)
    /\ Len(calls) = 2
    /\ calls[2].json_payload.notify = Some("OWNER_REVIEWERS")

-----------------------------------------------------------------------------
(* Vocabulary of the session properties *)

Running == ~IsNone(lifespan_context)

\* the handler class of a method name
HandlerOf(method) ==
    IF method = <<"b", "a", "s", "i", "c">> THEN "HTTPBasicAuth" ELSE "HTTPDigestAuth"

\* the last request of the session was the call of the named function alone
Called(tool) == pc = "done" /\ request.tool = tool

(* C22: every transport call of a session uses the credential scheme, the
   secret and the TLS policy that the settings gave when the session
   started, whatever the authentication-method, password and TLS settings
   have been changed to since. *)
C22_SessionSettingsFixed ==
    Running =>
        \A k \in 1..Len(sent) :
            /\ sent[k].auth.handler =
                   HandlerOf(get_auth_method(Val(session_environ)).result)
            /\ sent[k].auth.password = get_password(Val(session_environ)).result
            /\ sent[k].verify =
                   resolve_ssl_verification_setting(Val(session_environ)).result

\* a session started with no method configured (digest) sends the digest
\* secret with HTTP Basic after GERRIT_AUTH_METHOD is set to basic
C22_Divergence ==
    /\ Running
    /\ IsNone(Val(session_environ).GERRIT_AUTH_METHOD)
    /\ Len(sent) = 2
    /\ sent[1].auth.handler = "HTTPDigestAuth"
    /\ sent[2].auth = [handler |-> "HTTPBasicAuth", username |-> <<"u">>,
                       password |-> <<"h", "p">>]

\* the part of C22 that holds: the secret and the TLS policy of every
\* transport call are those of the session start
SecretAndTlsFixed ==
    Running =>
        \A k \in 1..Len(sent) :
            /\ sent[k].auth.password = get_password(Val(session_environ)).result
            /\ sent[k].verify =
                   resolve_ssl_verification_setting(Val(session_environ)).result

\* the upper-case form of a character
UpperChar(c) ==
    IF \E i \in 1..Len(Lowercase) : Lowercase[i] = c
    THEN Uppercase[CHOOSE i \in 1..Len(Lowercase) : Lowercase[i] = c]
    ELSE c

\* text is one of the words, in any case, with blanks around it
IsWordOf(text, words) ==
    \E w \in words : \E a \in 0..Len(text) :
        /\ Len(text) >= a + Len(w)
        /\ \A i \in 1..a : text[i] = " "
        /\ \A i \in 1..Len(w) : text[a + i] \in {w[i], UpperChar(w[i])}
        /\ \A i \in (a + Len(w) + 1)..Len(text) : text[i] = " "

\* text, trimmed and with ~ expanded, names an existing regular file
NamesFile(text) == PathExpandUser(Strip(text)) \in RegularFiles

\* a CA bundle is configured: GERRIT_CA_BUNDLE is set and not empty
BundleConfigured == ~IsNone(environ.GERRIT_CA_BUNDLE) /\ environ.GERRIT_CA_BUNDLE # Some(<<>>)

(* C23: resolve_ssl_verification_setting returns False only when no CA
   bundle is configured and GERRIT_SSL_VERIFY, trimmed and lower-cased, is
   one of 0, false, no, off; with nothing configured it returns True; a
   configured CA bundle takes precedence over GERRIT_SSL_VERIFY and gives
   the path of an existing bundle file or an error; a GERRIT_SSL_VERIFY
   value that is neither a boolean word nor an existing file raises an
   error. *)
C23_TlsPolicyResolution ==
    Called("resolve_ssl_verification_setting") =>
        LET ssl == environ.GERRIT_SSL_VERIFY
            returned == outcome.status = "returned"
        IN /\ (returned /\ outcome.result.verify = "False") =>
                  /\ ~BundleConfigured
                  /\ ~IsNone(ssl)
                  /\ IsWordOf(Val(ssl), FalseWords)
           /\ (IsNone(ssl) /\ IsNone(environ.GERRIT_CA_BUNDLE)) =>
                  returned /\ outcome.result = VerifyTrue
           /\ BundleConfigured =>
                  \/ outcome.status = "raised" /\ outcome.error.type = "ValueError"
                  \/ /\ returned
                     /\ outcome.result.verify = "bundle"
                     /\ outcome.result.path \in RegularFiles
                     /\ NamesFile(Val(environ.GERRIT_CA_BUNDLE))
           /\ (/\ ~BundleConfigured
               /\ ~IsNone(ssl)
               /\ ~IsWordOf(Val(ssl), TrueWords \cup FalseWords)
               /\ ~NamesFile(Val(ssl))) =>
                  outcome.status = "raised" /\ outcome.error.type = "ValueError"

\* " False " with an empty GERRIT_CA_BUNDLE switches verification off
C23_Witness ==
    /\ Called("resolve_ssl_verification_setting")
    /\ environ.GERRIT_SSL_VERIFY = Some(<<" ", "F", "a", "l", "s", "e", " ">>)
    /\ environ.GERRIT_CA_BUNDLE = Some(<<>>)
    /\ outcome = Returned(VerifyFalse)

\* a bundle given as " ~/ca.pem " wins over GERRIT_SSL_VERIFY=false
C23_WitnessBundle ==
    /\ Called("resolve_ssl_verification_setting")
    /\ environ.GERRIT_SSL_VERIFY = Some(<<"f", "a", "l", "s", "e">>)
    /\ environ.GERRIT_CA_BUNDLE = Some(<<"~", "/", "c", "a", ".", "p", "e", "m">>)
    /\ outcome = Returned(VerifyBundle(<<"/", "h", "/", "c", "a", ".", "p", "e", "m">>))

\* "maybe" is refused
C23_WitnessInvalid ==
    /\ Called("resolve_ssl_verification_setting")
    /\ environ.GERRIT_SSL_VERIFY = Some(<<"m", "a", "y", "b", "e">>)
    /\ IsNone(environ.GERRIT_CA_BUNDLE)
    /\ outcome.status = "raised"


\* text is the word w in any case
SameWord(text, w) ==
    /\ Len(text) = Len(w)
    /\ \A i \in 1..Len(w) : text[i] \in {w[i], UpperChar(w[i])}

\* the method GERRIT_AUTH_METHOD selects: "basic", "digest" or "none"
SelectedMethod ==
    LET method == environ.GERRIT_AUTH_METHOD IN
    IF IsNone(method) THEN "digest"
    ELSE IF SameWord(Val(method), <<"d", "i", "g", "e", "s", "t">>) THEN "digest"
    ELSE IF SameWord(Val(method), <<"b", "a", "s", "i", "c">>) THEN "basic"
    ELSE "none"

\* the setting that holds the secret of the selected method
SelectedSecret ==
    IF SelectedMethod = "basic" THEN environ.GERRIT_PASSWORD
    ELSE environ.GERRIT_HTTP_PASSWORD

(* C24: get_password returns GERRIT_PASSWORD for basic and
   GERRIT_HTTP_PASSWORD for digest, digest being selected when
   GERRIT_AUTH_METHOD is unset and the method being matched in any case;
   it fails when the selected method's secret is unset or empty, even if
   the other secret is set; an unrecognised method fails and no default
   is used. *)
C24_SecretOfSelectedMethod ==
    Called("get_password") =>
        /\ SelectedMethod = "none" =>
               outcome.status = "raised" /\ outcome.error.type = "ValueError"
        /\ (SelectedMethod # "none" /\ Truthy(SelectedSecret)) =>
               outcome = Returned(Val(SelectedSecret))
        /\ (SelectedMethod # "none" /\ ~Truthy(SelectedSecret)) =>
               outcome.status = "raised" /\ outcome.error.type = "ValueError"

\* BASIC selects GERRIT_PASSWORD although GERRIT_HTTP_PASSWORD is set too
C24_Witness ==
    /\ Called("get_password")
    /\ environ.GERRIT_AUTH_METHOD = Some(<<"B", "A", "S", "I", "C">>)
    /\ environ.GERRIT_HTTP_PASSWORD = Some(<<"h", "p">>)
    /\ outcome = Returned(<<"l", "p">>)

\* basic without GERRIT_PASSWORD fails although GERRIT_HTTP_PASSWORD is set
C24_WitnessMissing ==
    /\ Called("get_password")
    /\ environ.GERRIT_AUTH_METHOD = Some(<<"b", "a", "s", "i", "c">>)
    /\ ~Truthy(environ.GERRIT_PASSWORD)
    /\ environ.GERRIT_HTTP_PASSWORD = Some(<<"h", "p">>)
    /\ outcome.status = "raised"

\* ldap fails although both secrets are set
C24_WitnessUnrecognised ==
    /\ Called("get_password")
    /\ environ.GERRIT_AUTH_METHOD = Some(<<"l", "d", "a", "p">>)
    /\ Truthy(environ.GERRIT_PASSWORD)
    /\ Truthy(environ.GERRIT_HTTP_PASSWORD)
    /\ outcome.status = "raised"

\* no method set: the digest secret
C24_WitnessDefault ==
    /\ Called("get_password")
    /\ IsNone(environ.GERRIT_AUTH_METHOD)
    /\ Truthy(environ.GERRIT_PASSWORD)
    /\ outcome = Returned(<<"h", "p">>)


\* a host as the transport needs it: not empty and without a scheme
BareHost(host) ==
    /\ host # <<>>
    /\ ~StartsWith(host, HttpScheme)
    /\ ~StartsWith(host, HttpsScheme)

(* C30: every session context produced by gerrit_lifespan has a non-empty
   host that does not begin with http:// or https://, a non-empty user and
   a non-empty password; a session start that fails produces no context;
   no transport call is made with a missing host, user or password. *)
C30_SessionContextComplete ==
    /\ Running =>
           /\ BareHost(Val(lifespan_context).host)
           /\ Val(lifespan_context).user # <<>>
           /\ Val(lifespan_context).http_password # <<>>
    /\ (Called("gerrit_lifespan") /\ outcome.status = "raised") => ~Running
    /\ \A k \in 1..Len(sent) :
           /\ sent[k].host # <<>>
           /\ sent[k].auth.username # <<>>
           /\ sent[k].auth.password # <<>>

\* GERRIT_HOST=https://https://g starts a session whose host is https://g
C30_Divergence ==
    /\ Called("gerrit_lifespan")
    /\ environ.GERRIT_HOST =
           Some(<<"h", "t", "t", "p", "s", ":", "/", "/",
                  "h", "t", "t", "p", "s", ":", "/", "/", "g">>)
    /\ Running
    /\ Val(lifespan_context).host = <<"h", "t", "t", "p", "s", ":", "/", "/", "g">>

\* what of C30 the code keeps: host, user and password are never missing
NothingMissing ==
    /\ Running =>
           /\ Val(lifespan_context).host # <<>>
           /\ Val(lifespan_context).user # <<>>
           /\ Val(lifespan_context).http_password # <<>>
    /\ (Called("gerrit_lifespan") /\ outcome.status = "raised") => ~Running
    /\ \A k \in 1..Len(sent) :
           /\ sent[k].host # <<>>
           /\ sent[k].auth.username # <<>>
           /\ sent[k].auth.password # <<>>


\* the file at position i of the mapping is one whose diff is to be fetched
ToBeFetched(i) ==
    /\ files[i].path # COMMIT_MSG
    /\ IF Fgc THEN Hits(files[i].path) = {}
       ELSE files[i].status # Some("SAME")

\* the position in the mapping of the n-th file to be fetched
NthToBeFetched(n) ==
    {i \in 1..Len(files) :
        /\ ToBeFetched(i)
        /\ Cardinality({j \in 1..i : ToBeFetched(j)}) = n}

(* C25: in both fetch tools the diff calls follow the iteration order of
   the file mapping, the k-th diff call being for the k-th file to be
   fetched, and a call is issued only when every earlier call of the request
   has been answered without failure, so that at most one call is
   outstanding. *)
C25_DiffCallsInMappingOrder ==
    (Fgc \/ Fpd) =>
        LET D == CallsOfKind({"diff"}) IN
        /\ Len(answers) \in {Len(calls) - 1, Len(calls)}
        /\ \A k \in 1..(Len(calls) - 1) : IsNone(answers[k].failure)
        /\ \A k \in D :
              LET n == Cardinality({j \in D : j <= k}) IN
              /\ NthToBeFetched(n) # {}
              /\ \A i \in NthToBeFetched(n) :
                    calls[k].path = Some(Quote(files[i].path))

\* fetch_gerrit_change: x.lock, then /COMMIT_MSG, then a.go in the mapping;
\* the diff of x.lock is answered and the diff of a.go is awaited
C25_Witness ==
    /\ Fgc
    /\ PathsOf(files) = <<PathLock, COMMIT_MSG, PathA>>
    /\ Len(calls) = 3 /\ Len(answers) = 2
    /\ calls[2].path = Some(Quote(PathLock))
    /\ calls[3].path = Some(Quote(PathA))

\* fetch_patchset_diff: n/y.js, an unchanged x.lock, then a.go
C25_WitnessDiff ==
    /\ Fpd
    /\ PathsOf(files) = <<PathDir, PathLock, PathA>>
    /\ files[2].status = Some("SAME")
    /\ Len(calls) = 4 /\ Len(answers) = 3
    /\ calls[3].path = Some(Quote(PathDir))
    /\ calls[4].path = Some(Quote(PathA))


\* two calls ask for the same endpoint
SameEndpoint(a, b) ==
    /\ a.kind = b.kind
    /\ a.change = b.change
    /\ a.revision = b.revision
    /\ a.path = b.path
    /\ a.base = b.base
    /\ a.kind = "detail" => a.options = b.options

(* C26: in both fetch tools a failed metadata, file-listing or diff call
   is the last transport call of its request, which has ended by raising
   that failure: it is not retried and nothing is called after it; only a
   failed comments call is recovered from.  No endpoint is requested twice
   in one request. *)
C26_NoRecoveryNoRetry ==
    (Fgc \/ Fpd) =>
        /\ \A k \in 1..Len(answers) :
              (calls[k].kind # "comments" /\ ~IsNone(answers[k].failure)) =>
                  /\ k = Len(calls)
                  /\ HasRaised
                  /\ outcome.error.type = "Exception"
                  /\ outcome.error.msg.text = Val(answers[k].failure)
        /\ \A k1, k2 \in 1..Len(calls) :
              SameEndpoint(calls[k1], calls[k2]) => k1 = k2

\* fetch_patchset_diff: the file listing fails after the metadata was read
C26_Witness ==
    /\ Fpd /\ HasRaised
    /\ Len(calls) = 2 /\ calls[2].kind = "files"
    /\ IsNone(answers[1].failure)
    /\ answers[2].failure = Some("Failed to make Gerrit REST API request")

\* fetch_gerrit_change: the metadata call fails, comments were requested
C26_WitnessMetadata ==
    /\ Fgc /\ HasRaised
    /\ IncludeComments(request)
    /\ Len(calls) = 1 /\ calls[1].kind = "detail"
    /\ answers[1].failure = Some("Authentication failed")

\* fetch_patchset_diff: the second diff call fails
C26_WitnessDiff ==
    /\ Fpd /\ HasRaised
    /\ Len(calls) = 4 /\ calls[4].kind = "diff"
    /\ ~IsNone(answers[4].failure)
    /\ idx < Len(files)


\* GERRIT_EXCLUDED_PATTERNS is unset, empty, or only commas and blanks
NoPatternConfigured ==
    \/ IsNone(environ.GERRIT_EXCLUDED_PATTERNS)
    \/ \A i \in 1..Len(Val(environ.GERRIT_EXCLUDED_PATTERNS)) :
           Val(environ.GERRIT_EXCLUDED_PATTERNS)[i] \in {",", " "}

\* the positions of the mapping's files other than /COMMIT_MSG
OtherThanCommitMsg == {i \in 1..Len(files) : files[i].path # COMMIT_MSG}

(* C27: with no exclusion pattern configured (GERRIT_EXCLUDED_PATTERNS
   unset, empty, or only commas and whitespace) fetch_gerrit_change excludes
   nothing: every file other than /COMMIT_MSG is processed and the result
   has no excluded-files report.  Whatever is configured, a blank entry is
   never the pattern a file is excluded by. *)
C27_NoPatternExcludesNothing ==
    Fgc =>
        /\ NoPatternConfigured =>
              /\ excluded_files = <<>>
              /\ HasReturned =>
                    /\ "excluded_large_files" \notin DOMAIN outcome.result
                    /\ "note" \notin DOMAIN outcome.result
                    /\ Len(outcome.result.files) = Cardinality(OtherThanCommitMsg)
                    /\ \A i \in OtherThanCommitMsg :
                          files[i].path \in Elements(PathsOf(outcome.result.files))
        /\ \A k \in 1..Len(excluded_files) :
              \E j \in 1..Len(excluded_files[k].exclude_reason.pattern) :
                  excluded_files[k].exclude_reason.pattern[j] # " "

\* " ,, " configured: x.lock and a.go are both processed
C27_Witness ==
    /\ Fgc /\ HasReturned
    /\ environ.GERRIT_EXCLUDED_PATTERNS = Some(<<" ", ",", ",", " ">>)
    /\ PathsOf(files) = <<COMMIT_MSG, PathLock, PathA>>
    /\ PathsOf(outcome.result.files) = <<PathLock, PathA>>

\* the empty string configured
C27_WitnessEmpty ==
    /\ Fgc /\ HasReturned
    /\ environ.GERRIT_EXCLUDED_PATTERNS = Some(<<>>)
    /\ Len(outcome.result.files) = 3

\* "lock, x,,^y" has a blank entry: a.go is processed, x.lock is excluded
C27_WitnessBlankEntry ==
    /\ Fgc /\ HasReturned
    /\ environ.GERRIT_EXCLUDED_PATTERNS =
           Some(<<"l", "o", "c", "k", ",", " ", "x", ",", ",", "^", "y">>)
    /\ PathsOf(outcome.result.files) = <<PathA>>
    /\ PathsOf(excluded_files) = <<PathLock>>


(* C28: a fetch_gerrit_change request issues at most one comments call; it
   is issued after a diff call was made and answered without failure for
   every file to be fetched, and it is addressed to the resolved revision,
   the one of the diff calls and of the result. *)
C28_CommentsCallLastAndSameRevision ==
    Fgc =>
        LET C == CallsOfKind({"comments"})
            D == CallsOfKind({"diff"})
        IN /\ Cardinality(C) <= 1
           /\ \A c \in C :
                 /\ c = Len(calls)
                 /\ \A k \in 1..(c - 1) : IsNone(answers[k].failure)
                 /\ Cardinality(D) =
                        Cardinality({i \in 1..Len(files) : ToBeFetched(i)})
                 /\ calls[c].change = request.change_id
                 /\ calls[c].revision = target_revision
                 /\ \A d \in D : calls[d].revision = calls[c].revision
                 /\ HasReturned =>
                        Some(outcome.result.revision) = calls[c].revision

\* patchset 10 requested while patchset 2 is current: two diffs, then the
\* comments, all of revision r2
C28_Witness ==
    /\ Fgc /\ HasReturned
    /\ request.patchset_number = Some(<<"1", "0">>)
    /\ Val(change_info).current_revision = Some("r1")
    /\ Len(calls) = 4
    /\ calls[2].kind = "diff" /\ calls[3].kind = "diff"
    /\ calls[4].kind = "comments"
    /\ calls[4].revision = Some("r2")
    /\ outcome.result.revision = "r2"


\* the metadata answer cannot be used by the request
UnusableMetadata ==
    LET ci == Val(change_info)
        revisions == Get(ci.revisions, <<>>)
    IN \/ IsEmptyDict(ci)
       \/ /\ Fgc
          /\ \/ IsNone(ci.project)
             \/ /\ Truthy(request.patchset_number)
                /\ Matching(revisions, Val(request.patchset_number)) = {}
             \/ /\ ~Truthy(request.patchset_number)
                /\ \/ IsNone(ci.current_revision)
                   \/ Val(ci.current_revision) \notin RevisionKeys(revisions)
       \/ /\ Fpd
          /\ \/ Matching(revisions, request.base_patchset) = {}
             \/ Matching(revisions, request.target_patchset) = {}

(* C29: the first transport call of every fetch_gerrit_change and
   fetch_patchset_diff request is the change-metadata fetch; when its answer
   is unusable (empty, without a project for fetch_gerrit_change, or without
   the current or requested revision in its revision mapping) the request
   fails with no other transport call made. *)
C29_MetadataFirst ==
    (Fgc \/ Fpd) =>
        /\ Len(calls) >= 1
        /\ calls[1].kind = "detail"
        /\ calls[1].change = request.change_id
        /\ (~IsNone(change_info) /\ UnusableMetadata) =>
              /\ HasRaised
              /\ outcome.error.type = "ValueError"
              /\ Len(calls) = 1

\* fetch_gerrit_change: the current revision r1 is not in the mapping
C29_Witness ==
    /\ Fgc /\ HasRaised
    /\ IsNone(request.patchset_number)
    /\ ~IsNone(change_info)
    /\ Val(change_info).project = Some("proj")
    /\ Val(change_info).current_revision = Some("r1")
    /\ Val(change_info).revisions = Some(<<[rev |-> "r2", number |-> 2]>>)
    /\ Len(calls) = 1

\* fetch_gerrit_change: no project
C29_WitnessProject ==
    /\ Fgc /\ HasRaised
    /\ ~IsNone(change_info)
    /\ IsNone(Val(change_info).project)
    /\ Val(change_info).current_revision = Some("r1")
    /\ Val(change_info).revisions = Some(<<[rev |-> "r1", number |-> 2]>>)
    /\ Len(calls) = 1

\* fetch_patchset_diff: the base patchset is in no revision
C29_WitnessDiff ==
    /\ Fpd /\ HasRaised
    /\ ~IsNone(change_info)
    /\ request.base_patchset = <<"3">>
    /\ request.target_patchset = <<"2">>
    /\ Val(change_info).revisions = Some(<<[rev |-> "r1", number |-> 2]>>)
    /\ Len(calls) = 1

\* a usable answer: the file listing follows the metadata
C29_WitnessUsable ==
    /\ Fpd
    /\ ~IsNone(change_info) /\ ~UnusableMetadata
    /\ Len(calls) = 2 /\ calls[2].kind = "files"

====
